---- MODULE Spec2Model ----
(***************************************************************************)
(* Verification model of the wire-protocol decoding core of racoon:        *)
(* the byte stream with its one-slot pushback buffer (core/stream),        *)
(* the request header reader (core/parser), the multipart and urlencoded   *)
(* body decoders (core/parser/multipart, core/parser/urlencoded), the      *)
(* WebSocket frame reader and builder and the WebSocket message loop       *)
(* (core/websocket), the connection handler (core/server), the limits of   *)
(* core/forms, the Headers map (core/headers) and the file session manager *)
(* (core/session).                                                         *)
(*                                                                         *)
(* Bytes are modelled as one-character strings; "CR" and "LF" stand for    *)
(* the bytes 13 and 10.  The bytes of WebSocket frames are numbers 0..255. *)
(* Option<Vec<u8>> is a record [some, bytes].                              *)
(***************************************************************************)
EXTENDS Integers, Sequences, FiniteSets, TLC

VARIABLES
    stream,     \* the AbstractStream object: kind, buffer_size, transport, restored_payload, is_shutdown
    wire,       \* history: every byte the peer transmitted on this connection, in order
    msg,        \* history: what the peer meant to send (header block and body, parts, pairs);
                \* for a session what the calls made so far say it holds
    cfg,        \* the configured RequestConstraints / FormConstraints and the request headers
    task,       \* which consumer owns the stream: "client", "header", "body", "multipart",
                \* "urlencoded", "frame", "websocket", "writers", "server", "parts"; or
                \* which object is called: "limits", "headermap", "session"
    st,         \* the local variables of the running consumer (its loop state)
    last,       \* observation of the most recent stream call: operation, result, physical reads
    consumed,   \* history: bytes returned by read_chunk and not given back
    held,       \* history: what the caller still holds of the chunk most recently returned
    flags       \* history: [foreign, overwrote] - how restore_payload has been used so far;
                \* for a WebSocket [closed, calls, stream] - the first Close made for a close frame

vars == <<stream, wire, msg, cfg, task, st, last, consumed, held, flags>>

----
\* Bounds of the model

MaxWire == 3
MaxBuf == 3
MaxForeign == 1

----
\* Byte-sequence helpers (slices of Vec<u8>)

Min(a, b) == IF a < b THEN a ELSE b
Max(a, b) == IF a > b THEN a ELSE b
Take(s, k) == SubSeq(s, 1, Min(k, Len(s)))
Drop(s, k) == SubSeq(s, Min(k, Len(s)) + 1, Len(s))
Suffix(s, k) == SubSeq(s, Len(s) - k + 1, Len(s))
DropLast(s, k) == SubSeq(s, 1, Len(s) - k)
IsSuffix(b, s) == Len(b) <= Len(s) /\ Suffix(s, Len(b)) = b
IsPrefix(b, s) == Len(b) <= Len(s) /\ Take(s, Len(b)) = b

RECURSIVE SeqsUpTo(_, _)
SeqsUpTo(A, n) ==
    IF n = 0 THEN {<<>>}
    ELSE LET shorter == SeqsUpTo(A, n - 1)
         IN shorter \cup {Append(s, a) : s \in {x \in shorter : Len(x) = n - 1}, a \in A}

----
\* core/stream/mod.rs

None == [some |-> FALSE, bytes |-> <<>>]
Some(b) == [some |-> TRUE, bytes |-> b]

Ok(b) == [ok |-> TRUE, bytes |-> b, err |-> "none"]
Err(e) == [ok |-> FALSE, bytes |-> <<>>, err |-> e]

\* TcpStreamWrapper::from / TestStreamWrapper::new
NewStream(kind, data, buffer_size) ==
    [kind |-> kind, buffer_size |-> buffer_size, transport |-> data,
     restored_payload |-> None, is_shutdown |-> FALSE]

\* restore_payload: *restored_payload = Some(bytes), whatever the slot held
restore_payload(s, b) == [s EXCEPT !.restored_payload = Some(b)]

restored_len(s) == IF s.restored_payload.some THEN Len(s.restored_payload.bytes) ELSE 0

\* What one reader.read(&mut buffer) of the socket may return: any number of the
\* pending bytes up to the buffer length, 0 once the peer has nothing more to send
\* or the socket was shut down.
ReadSizes(s) ==
    IF s.kind = "test" THEN {Min(s.buffer_size, Len(s.transport))}
    ELSE IF s.is_shutdown \/ Len(s.transport) = 0 THEN {0}
    ELSE 1..Min(s.buffer_size, Len(s.transport))

\* TcpStreamWrapper::read_chunk (UnixStreamWrapper and TlsTcpStreamWrapper are the same)
read_chunk_tcp(s, n) ==
    IF s.restored_payload.some
    THEN [stream |-> [s EXCEPT !.restored_payload = None],
          res |-> Ok(s.restored_payload.bytes), phys |-> 0, asked |-> 0]
    ELSE IF n = 0
         THEN [stream |-> s, res |-> Err("BrokenPipe"), phys |-> 1, asked |-> s.buffer_size]
         ELSE [stream |-> [s EXCEPT !.transport = Drop(s.transport, n)],
               res |-> Ok(Take(s.transport, n)), phys |-> 1, asked |-> s.buffer_size]

\* TestStreamWrapper::read_chunk
read_chunk_test(s, n) ==
    IF s.restored_payload.some /\ Len(s.restored_payload.bytes) > 0
    THEN [stream |-> [s EXCEPT !.restored_payload = None],
          res |-> Ok(s.restored_payload.bytes), phys |-> 0, asked |-> 0]
    ELSE LET t == [s EXCEPT !.restored_payload = None]
             read_size == Min(s.buffer_size, Len(s.transport))
         IN IF s.is_shutdown
            THEN [stream |-> t, res |-> Err("Other"), phys |-> 0, asked |-> 0]
            ELSE IF read_size = 0
                 THEN [stream |-> t, res |-> Err("Other"), phys |-> 1, asked |-> read_size]
                 ELSE [stream |-> [t EXCEPT !.transport = Drop(s.transport, read_size)],
                       res |-> Ok(Take(s.transport, read_size)), phys |-> 1,
                       asked |-> read_size]

\* read_chunk that hands the pushback out but leaves it in the slot
read_chunk_keep(s, n) ==
    IF s.restored_payload.some /\ Len(s.restored_payload.bytes) > 0
    THEN [stream |-> s, res |-> Ok(s.restored_payload.bytes), phys |-> 0, asked |-> 0]
    ELSE IF s.kind = "test" THEN read_chunk_test(s, n) ELSE read_chunk_tcp(s, n)

\* read_chunk that goes to the transport although bytes are pending in the slot
read_chunk_skip(s, n) ==
    LET t == [s EXCEPT !.restored_payload = None]
    IN IF s.kind = "test" THEN read_chunk_test(t, n) ELSE read_chunk_tcp(t, n)

\* AbstractStream::read_chunk, dispatched on the wrapper behind the Box<dyn AbstractStream>
read_chunk(s, n) ==
    IF s.kind = "test" THEN read_chunk_test(s, n) ELSE read_chunk_tcp(s, n)

\* shutdown(): the test double sets its flag, a socket is closed
shutdown(s) == [s EXCEPT !.is_shutdown = TRUE]

----
\* History bookkeeping shared by the specifications

NoCall == [op |-> "none", res |-> Ok(<<>>), phys |-> 0, asked |-> 0, slot |-> None,
           arg |-> <<>>]
ReadCall(s, r) == [op |-> "read_chunk", res |-> r.res, phys |-> r.phys, asked |-> r.asked,
                   slot |-> s.restored_payload, arg |-> <<>>]
RestoreCall(s, b) == [op |-> "restore_payload", res |-> Ok(<<>>), phys |-> 0, asked |-> 0,
                      slot |-> s.restored_payload, arg |-> b]
CleanFlags == [foreign |-> 0, overwrote |-> FALSE]

----
\* Specification Spec: one stream used by arbitrary callers through its public
\* operations read_chunk, restore_payload and shutdown.

Bytes == {"a", "b"}
Wires == SeqsUpTo(Bytes, MaxWire)
Kinds == {"tcp", "test"}

Init ==
    /\ wire \in Wires
    /\ \E k \in Kinds, bs \in 1..MaxBuf : stream = NewStream(k, wire, bs)
    /\ msg = [kind |-> "raw"]
    /\ cfg = [kind |-> "none"]
    /\ task = "client"
    /\ st = [pc |-> "idle"]
    /\ last = NoCall
    /\ consumed = <<>>
    /\ held = <<>>
    /\ flags = CleanFlags

ClientRead ==
    /\ task = "client"
    /\ \E n \in ReadSizes(stream) :
         LET r == read_chunk(stream, n)
         IN /\ stream' = r.stream
            /\ last' = ReadCall(stream, r)
            /\ consumed' = consumed \o r.res.bytes
            /\ held' = IF r.res.ok THEN r.res.bytes ELSE held
    /\ UNCHANGED <<wire, msg, cfg, task, st, flags>>

\* The caller gives back b: a suffix of what it still holds of the last chunk, or
\* (foreign) some other byte sequence.
ClientRestore ==
    /\ task = "client"
    /\ \E b \in {x \in SeqsUpTo(Bytes, 1) : flags.foreign < MaxForeign}
                 \cup {Suffix(held, k) : k \in 0..Len(held)} :
         /\ stream' = restore_payload(stream, b)
         /\ last' = RestoreCall(stream, b)
         /\ IF IsSuffix(b, held)
            THEN /\ consumed' = DropLast(consumed, Len(b))
                 /\ held' = DropLast(held, Len(b))
                 /\ flags' = [flags EXCEPT !.overwrote = @ \/ restored_len(stream) > 0]
            ELSE /\ UNCHANGED <<consumed, held>>
                 /\ flags' = [flags EXCEPT !.foreign = @ + 1]
    /\ UNCHANGED <<wire, msg, cfg, task, st>>

ClientShutdown ==
    /\ task = "client"
    /\ ~stream.is_shutdown
    /\ stream' = shutdown(stream)
    /\ last' = [NoCall EXCEPT !.op = "shutdown"]
    /\ UNCHANGED <<wire, msg, cfg, task, st, consumed, held, flags>>

Next == ClientRead \/ ClientRestore \/ ClientShutdown

Spec == Init /\ [][Next]_vars

----
\* core/headers/mod.rs: Headers = HashMap<String, Vec<Vec<u8>>>, a function from
\* the stored names to their value lists

EmptyHeaders == <<>>

HasKey(h, name) == name \in DOMAIN h

\* HeaderValue::set: one value is left for the name
set(h, name, value) ==
    [k \in DOMAIN h \cup {name} |-> IF k = name THEN <<value>> ELSE h[k]]

\* HeaderValue::set_multiple
set_multiple(h, name, value) ==
    IF HasKey(h, name)
    THEN [h EXCEPT ![name] = Append(@, value)]
    ELSE [k \in DOMAIN h \cup {name} |-> IF k = name THEN <<value>> ELSE h[k]]

----
\* httparse::Request::parse as read_request_headers uses it: the status of a buffer
\* is Partial (more bytes needed), Complete(pos) or Error.

CR == "CR"
LF == "LF"
SP == " "
TokenChars ==
    {"G", "E", "T", "P", "U", "H", "A", "B", "C", "L", "O", "S", "-",
     "a", "b", "c", "d", "e", "f", "g", "h", "i", "k", "l", "m", "n", "o", "p", "r", "s",
     "t", "u", "v", "w", "x", "y", "0", "1", "2", "3", "4", "5", "6", "7", "8", "9"}
UriChars == TokenChars \cup {"/", ".", ":", "@"}
ValueChars == UriChars \cup {SP}
VersionPrefix == <<"H", "T", "T", "P", "/", "1", ".">>

Partial == [status |-> "Partial"]
ParseError == [status |-> "Error"]

\* first index >= i whose byte is not in S (Len + 1 when there is none)
RECURSIVE ScanWhile(_, _, _)
ScanWhile(buf, i, S) ==
    IF i > Len(buf) \/ buf[i] \notin S THEN i ELSE ScanWhile(buf, i + 1, S)

\* a line break at i: the index after it, 0 when more bytes are needed, -1 on error
NewLine(buf, i) ==
    IF i > Len(buf) THEN 0
    ELSE IF buf[i] = LF THEN i + 1
    ELSE IF buf[i] # CR THEN -1
    ELSE IF i + 1 > Len(buf) THEN 0
    ELSE IF buf[i + 1] = LF THEN i + 2 ELSE -1

RECURSIVE SkipEmptyLines(_, _)
SkipEmptyLines(buf, i) ==
    IF i > Len(buf) THEN 0
    ELSE IF buf[i] \in {CR, LF}
         THEN LET n == NewLine(buf, i) IN IF n <= 0 THEN n ELSE SkipEmptyLines(buf, n)
         ELSE i

RECURSIVE TrimRight(_)
TrimRight(v) == IF Len(v) > 0 /\ v[Len(v)] = SP THEN TrimRight(DropLast(v, 1)) ELSE v

RECURSIVE ParseHeaders(_, _, _, _)
ParseHeaders(buf, i, acc, max_header_count) ==
    IF i > Len(buf) THEN Partial
    ELSE IF buf[i] \in {CR, LF}
    THEN LET n == NewLine(buf, i)
         IN IF n = 0 THEN Partial
            ELSE IF n < 0 THEN ParseError
            ELSE [status |-> "Complete", pos |-> n - 1, headers |-> acc]
    ELSE IF Len(acc) >= max_header_count THEN ParseError
    ELSE IF buf[i] \notin TokenChars THEN ParseError
    ELSE LET j == ScanWhile(buf, i, TokenChars)
             v == ScanWhile(buf, j + 1, {SP})
             e == ScanWhile(buf, v, ValueChars)
             n == NewLine(buf, e)
         IN IF j > Len(buf) THEN Partial
            ELSE IF buf[j] # ":" THEN ParseError
            ELSE IF v > Len(buf) \/ e > Len(buf) \/ n = 0 THEN Partial
            ELSE IF n < 0 THEN ParseError
            ELSE ParseHeaders(buf, n,
                     Append(acc, [name |-> SubSeq(buf, i, j - 1),
                                  value |-> TrimRight(SubSeq(buf, v, e - 1))]),
                     max_header_count)

ParseRequest(buf, max_header_count) ==
    LET i == SkipEmptyLines(buf, 1)
        j == ScanWhile(buf, i, TokenChars)
        k == ScanWhile(buf, j + 1, UriChars)
        ver == SubSeq(buf, k + 1, Min(Len(buf), k + 8))
        n == NewLine(buf, k + 9)
    IN IF i = 0 THEN Partial
       ELSE IF i < 0 THEN ParseError
       ELSE IF j > Len(buf) THEN Partial
       ELSE IF buf[j] # SP \/ j = i THEN ParseError
       ELSE IF k > Len(buf) THEN Partial
       ELSE IF buf[k] # SP \/ k = j + 1 THEN ParseError
       ELSE IF ~IsPrefix(Take(ver, 7), VersionPrefix) THEN ParseError
       ELSE IF Len(ver) < 8 THEN Partial
       ELSE IF ver[8] \notin {"0", "1"} THEN ParseError
       ELSE IF n = 0 THEN Partial
       ELSE IF n < 0 THEN ParseError
       ELSE LET h == ParseHeaders(buf, n, <<>>, max_header_count)
            IN IF h.status # "Complete" THEN h
               ELSE [status |-> "Complete", pos |-> h.pos,
                     method |-> SubSeq(buf, i, j - 1),
                     path |-> SubSeq(buf, j + 1, k - 1),
                     version |-> IF ver[8] = "1" THEN 1 ELSE 0,
                     headers |-> h.headers]

----
\* core/server/mod.rs, core/parser/mod.rs: the header reader

\* a header ceiling far above the configured one
max_request_header_size_unchecked(c, buffer_size) == 1000

\* RequestConstraints::max_request_header_size
max_request_header_size(c, buffer_size) ==
    IF buffer_size > c.max_request_header_size THEN buffer_size
    ELSE c.max_request_header_size

\* the header lines collected with set in place of set_multiple
RECURSIVE CollectHeadersSet(_, _)
CollectHeadersSet(hs, h) ==
    IF hs = <<>> THEN h
    ELSE CollectHeadersSet(Tail(hs), set(h, Head(hs).name, Head(hs).value))

\* request.headers.iter().for_each(|header| headers.set_multiple(header.name, header.value))
RECURSIVE CollectHeaders(_, _)
CollectHeaders(hs, h) ==
    IF hs = <<>> THEN h
    ELSE CollectHeaders(Tail(hs), set_multiple(h, Head(hs).name, Head(hs).value))

RequestHeaderResult(p) ==
    [ok |-> TRUE, err |-> "none", method |-> p.method, http_version |-> p.version,
     raw_path |-> p.path, headers |-> CollectHeaders(p.headers, EmptyHeaders)]

HeaderLocals == [pc |-> "loop", buffer |-> <<>>, bytes_read |-> 0, result |-> Err("none")]

\* what read_request_headers gives back once the header block is complete:
\* the whole buffer instead of the part after it
HeaderRemainderAll(buffer, matched_position) == buffer

\* let partial_body = &buffer[matched_position..]
HeaderRemainder(buffer, matched_position) == Drop(buffer, matched_position)

\* One turn of the loop of read_request_headers: a read_chunk, the size check, the
\* parse of everything accumulated and, when the block is complete, the pushback.
\* Gives the stream and the locals after the turn.
read_request_headers_turn(s, l, c, n) ==
    LET r == read_chunk(s, n)
        bytes_read == l.bytes_read + Len(r.res.bytes)
        buffer == l.buffer \o r.res.bytes
        p == ParseRequest(buffer, c.max_header_count)
        fail(e) == [l EXCEPT !.pc = "done", !.result = Err(e)]
    IN IF ~r.res.ok
       THEN [stream |-> r.stream, st |-> fail("Others"), call |-> ReadCall(s, r)]
       ELSE IF bytes_read > max_request_header_size(c, s.buffer_size)
       THEN [stream |-> r.stream,
             st |-> [fail("HeaderSizeExceed") EXCEPT !.buffer = buffer,
                                                      !.bytes_read = bytes_read],
             call |-> ReadCall(s, r)]
       ELSE IF p.status # "Complete"
       THEN [stream |-> r.stream,
             st |-> [l EXCEPT !.buffer = buffer, !.bytes_read = bytes_read],
             call |-> ReadCall(s, r)]
       ELSE [stream |-> restore_payload(r.stream, HeaderRemainder(buffer, p.pos)),
             st |-> [pc |-> "done", buffer |-> buffer, bytes_read |-> bytes_read,
                     result |-> RequestHeaderResult(p)],
             call |-> RestoreCall(r.stream, HeaderRemainder(buffer, p.pos))]

----
\* Specification SpecHeader: read_request_headers on a fresh connection, then the
\* reads of whoever consumes the body.

MaxBody == 2
MaxChunk == 3

Line(chars) == chars \o <<CR, LF>>
RequestLine == Line(<<"G", "E", "T", SP, "/", SP, "H", "T", "T", "P", "/", "1", ".", "1">>)

\* The header blocks a client sends, each with what it means (valid = FALSE: what no
\* HTTP/1.x parser holding MaxHeaderCount header slots accepts).
HeadBlock(bytes, valid, method, path, version, headers) ==
    [head |-> bytes, valid |-> valid, method |-> method, raw_path |-> path,
     http_version |-> version, headers |-> headers]
Heads ==
    { HeadBlock(RequestLine \o <<CR, LF>>,
           TRUE, <<"G", "E", "T">>, <<"/">>, 1, <<>>),
      HeadBlock(Line(<<"P", "U", "T", SP, "/", "p", SP, "H", "T", "T", "P", "/", "1", ".", "0">>)
               \o Line(<<"A", ":", SP, "b">>) \o <<CR, LF>>,
           TRUE, <<"P", "U", "T">>, <<"/", "p">>, 0, [n \in {<<"A">>} |-> <<(<<"b">>)>>]),
      HeadBlock(RequestLine \o Line(<<"A", ":", "b">>) \o Line(<<"A", ":", "c", SP>>) \o <<CR, LF>>,
           TRUE, <<"G", "E", "T">>, <<"/">>, 1, [n \in {<<"A">>} |-> <<(<<"b">>), <<"c">>>>]),
      HeadBlock(RequestLine \o Line(<<"A", ":", "b">>) \o Line(<<"B", ":", "c">>)
               \o Line(<<"A", ":", "c">>) \o <<CR, LF>>,
           FALSE, <<>>, <<>>, 1, <<>>),
      HeadBlock(Line(<<"G", "E", "T", SP, "/", SP, "H", "T", "T", "X", "/", "1", ".", "1">>)
               \o <<CR, LF>>,
           FALSE, <<>>, <<>>, 1, <<>>) }
Bodies == {SubSeq(<<"b", "c", "p">>, 1, k) : k \in 0..MaxBody}
MaxHeaderCount == 2

InitHeader ==
    /\ \E h \in Heads, b \in Bodies : msg = h @@ [body |-> b]
    /\ wire = msg.head \o msg.body
    /\ \E k \in Kinds, bs \in (1..MaxChunk) \cup {Len(wire)} : stream = NewStream(k, wire, bs)
    /\ \E m \in {1, Len(msg.head) - 1, Len(msg.head), Len(wire)} :
         cfg = [kind |-> "request", max_request_header_size |-> m,
                max_header_count |-> MaxHeaderCount]
    /\ task = "header"
    /\ st = HeaderLocals
    /\ last = NoCall
    /\ consumed = <<>>
    /\ held = <<>>
    /\ flags = CleanFlags

HeaderTurn ==
    /\ task = "header" /\ st.pc = "loop"
    /\ \E n \in ReadSizes(stream) :
         LET t == read_request_headers_turn(stream, st, cfg, n)
         IN /\ stream' = t.stream
            /\ st' = t.st
            /\ last' = t.call
    /\ UNCHANGED <<wire, msg, cfg, task, consumed, held, flags>>

\* read_request_headers has returned Ok: the stream goes to the body consumer
HeaderReturn ==
    /\ task = "header" /\ st.pc = "done" /\ st.result.ok
    /\ task' = "body"
    /\ st' = [st EXCEPT !.pc = "first"]
    /\ UNCHANGED <<stream, wire, msg, cfg, last, consumed, held, flags>>

BodyRead ==
    /\ task = "body" /\ st.pc \in {"first", "second", "more"}
    /\ \E n \in ReadSizes(stream) :
         LET r == read_chunk(stream, n)
         IN /\ stream' = r.stream
            /\ last' = ReadCall(stream, r)
            /\ consumed' = consumed \o r.res.bytes
            /\ st' = [st EXCEPT !.pc = IF ~r.res.ok THEN "closed"
                                       ELSE IF st.pc = "first" THEN "second" ELSE "more"]
    /\ UNCHANGED <<wire, msg, cfg, task, held, flags>>

NextHeader == HeaderTurn \/ HeaderReturn \/ BodyRead

SpecHeader == InitHeader /\ [][NextHeader]_vars

----
\* core/forms/mod.rs: FormConstraints

\* the configured body size alone, whatever the buffer size
max_body_size_default(c, buffer_size) == c.max_body_size

\* FormConstraints::max_body_size
max_body_size(c, buffer_size) ==
    IF buffer_size > c.max_body_size THEN buffer_size ELSE c.max_body_size

\* FormConstraints::max_header_size
max_header_size(c, buffer_size) ==
    IF buffer_size > c.max_header_size THEN buffer_size ELSE c.max_header_size

\* FormConstraints::max_value_size
max_value_size(c, buffer_size) ==
    IF buffer_size > c.max_value_size THEN buffer_size ELSE c.max_value_size

\* FormConstraints::max_size_for_field
max_size_for_field(c, field_name, buffer_size) ==
    IF field_name \in DOMAIN c.custom_max_sizes
    THEN IF buffer_size > c.custom_max_sizes[field_name] THEN buffer_size
         ELSE c.custom_max_sizes[field_name]
    ELSE c.max_value_size

\* FormConstraints::max_size_for_file
max_size_for_file(c, field_name, buffer_size) ==
    IF field_name \in DOMAIN c.custom_max_sizes
    THEN IF buffer_size > c.custom_max_sizes[field_name] THEN buffer_size
         ELSE c.custom_max_sizes[field_name]
    ELSE c.max_file_size

----
\* Specification SpecLimits: the accessors of FormConstraints and RequestConstraints
\* called with the buffer size of a stream.

MaxLimit == 3

Accessors ==
    {"max_body_size", "max_header_size", "max_value_size", "max_size_for_field",
     "max_size_for_file", "max_request_header_size"}

FieldNames == {<<"a">>, <<"f">>}

\* the accessor called as the parsers call it
accessor_result(c, accessor, field_name, buffer_size) ==
    CASE accessor = "max_body_size" -> max_body_size(c, buffer_size)
      [] accessor = "max_header_size" -> max_header_size(c, buffer_size)
      [] accessor = "max_value_size" -> max_value_size(c, buffer_size)
      [] accessor = "max_size_for_field" -> max_size_for_field(c, field_name, buffer_size)
      [] accessor = "max_size_for_file" -> max_size_for_file(c, field_name, buffer_size)
      [] OTHER -> max_request_header_size(c, buffer_size)

InitLimits ==
    /\ \E b, h, f, v, r \in {1, MaxLimit}, cm \in {<<>>, [n \in {<<"a">>} |-> 2]} :
         cfg = [kind |-> "limits", max_body_size |-> b, max_header_size |-> h,
                max_file_size |-> f, max_value_size |-> v, custom_max_sizes |-> cm,
                max_request_header_size |-> r, max_header_count |-> MaxHeaderCount]
    /\ \E k \in Kinds, bs \in 1..(MaxLimit + 1) : stream = NewStream(k, <<>>, bs)
    /\ wire = <<>>
    /\ msg = [kind |-> "limits"]
    /\ task = "limits"
    /\ st = [accessor |-> "none", field_name |-> <<>>, result |-> 0]
    /\ last = NoCall
    /\ consumed = <<>>
    /\ held = <<>>
    /\ flags = CleanFlags

LimitsCall ==
    /\ task = "limits"
    /\ \E accessor \in Accessors, field_name \in FieldNames :
         st' = [accessor |-> accessor,
                field_name |-> IF accessor \in {"max_size_for_field", "max_size_for_file"}
                               THEN field_name ELSE <<>>,
                result |-> accessor_result(cfg, accessor, field_name, stream.buffer_size)]
    /\ UNCHANGED <<stream, wire, msg, cfg, task, last, consumed, held, flags>>

NextLimits == LimitsCall

SpecLimits == InitLimits /\ [][NextLimits]_vars

----
\* core/parser/multipart.rs: the part header

QUOTE == "Q"
Whitespace == {SP, CR, LF}
WordChars == 
    {"B", "C", "D", "T", "a", "d", "e", "f", "i", "l", "m", "n", "o", "p", "r", "s", "t", "x",
    "y", "z"}
Lower ==
    [ch \in {"C", "D", "L", "T"} |->
        CASE ch = "C" -> "c" [] ch = "D" -> "d" [] ch = "L" -> "l" [] ch = "T" -> "t"]
LowerOf(ch) == IF ch \in DOMAIN Lower THEN Lower[ch] ELSE ch
ToLowercase(str) == [i \in 1..Len(str) |-> LowerOf(str[i])]

ContentDispositionName ==
    <<"c", "o", "n", "t", "e", "n", "t", "-", "d", "i", "s", "p", "o", "s", "i", "t", "i", "o",
    "n">>
ContentTypeName == <<"c", "o", "n", "t", "e", "n", "t", "-", "t", "y", "p", "e">>
FormDataPrefix == <<"f", "o", "r", "m", "-", "d", "a", "t", "a", ";">>
AttrName == <<"n", "a", "m", "e">>
AttrFilename == <<"f", "i", "l", "e", "n", "a", "m", "e">>

MinOf(S) == CHOOSE x \in S : \A y \in S : x <= y

\* buffer.windows(pat.len()).position(|window| window == pat): -1 for None
Find(buf, pat) ==
    LET hits == {i \in 0..(Len(buf) - Len(pat)) : SubSeq(buf, i + 1, i + Len(pat)) = pat}
    IN IF hits = {} THEN -1 ELSE MinOf(hits)

\* str::trim
RECURSIVE TrimStart(_)
TrimStart(str) == IF Len(str) > 0 /\ str[1] \in Whitespace THEN TrimStart(Tail(str)) ELSE str
RECURSIVE TrimEnd(_)
TrimEnd(str) ==
    IF Len(str) > 0 /\ str[Len(str)] \in Whitespace THEN TrimEnd(DropLast(str, 1)) ELSE str
Trim(str) == TrimEnd(TrimStart(str))

EmptyFormPart ==
    [name |-> None, value |-> None, filename |-> None, content_type |-> None, file |-> None]

\* pattern.captures_iter(remaining) for (?<attribute>\w+)="(?<value>[^"]*)", each
\* capture applied to the form part in order
RECURSIVE ApplyCaptures(_, _, _)
ApplyCaptures(rem, i, form_part) ==
    LET ends == {e \in (i + 1)..(Len(rem) - 1) :
                    /\ rem[e] = "=" /\ rem[e + 1] = QUOTE /\ rem[e - 1] \in WordChars
                    /\ \E q \in (e + 2)..Len(rem) : rem[q] = QUOTE}
    IN IF ends = {} THEN form_part
       ELSE LET e == MinOf(ends)
                a == MinOf({b \in i..(e - 1) : \A k \in b..(e - 1) : rem[k] \in WordChars})
                q == MinOf({k \in (e + 2)..Len(rem) : rem[k] = QUOTE})
                attribute == SubSeq(rem, a, e - 1)
                value == SubSeq(rem, e + 2, q - 1)
                next == IF attribute = AttrName THEN [form_part EXCEPT !.name = Some(value)]
                        ELSE IF attribute = AttrFilename
                             THEN [form_part EXCEPT !.filename = Some(value)]
                             ELSE form_part
            IN ApplyCaptures(rem, q + 1, next)

\* parse_content_disposition_value: [ok, form_part]
parse_content_disposition_value(value, form_part) ==
    LET v == Trim(value)
        remaining == Trim(Drop(v, Len(FormDataPrefix)))
        after == ApplyCaptures(remaining, 1, form_part)
    IN IF ~IsPrefix(FormDataPrefix, v) THEN [ok |-> FALSE, form_part |-> form_part]
       ELSE IF ~after.name.some THEN [ok |-> FALSE, form_part |-> after]
       ELSE [ok |-> TRUE, form_part |-> after]

\* parse_form_part_header_line: [ok, form_part]
parse_form_part_header_line(header_line, form_part) ==
    LET colon == Find(header_line, <<":">>)
        header_name == Trim(Take(header_line, colon))
        header_value == Drop(header_line, colon + 1)
    IN IF colon < 0 THEN [ok |-> TRUE, form_part |-> form_part]
       ELSE IF ToLowercase(header_name) = ContentDispositionName
       THEN parse_content_disposition_value(header_value, form_part)
       ELSE IF ToLowercase(header_name) = ContentTypeName
       THEN [ok |-> TRUE,
             form_part |-> [form_part EXCEPT !.content_type = Some(Trim(header_value))]]
       ELSE [ok |-> TRUE, form_part |-> form_part]

RECURSIVE parse_form_part_header_from(_, _, _)
parse_form_part_header_from(header_bytes, last_scanned_position, form_part) ==
    LET to_scan == Drop(header_bytes, last_scanned_position)
        relative_position == Find(to_scan, <<CR, LF>>)
        line == parse_form_part_header_line(Take(to_scan, relative_position), form_part)
    IN IF relative_position < 0 THEN [ok |-> TRUE, form_part |-> form_part]
       ELSE IF ~line.ok THEN line
       ELSE parse_form_part_header_from(header_bytes,
                last_scanned_position + relative_position + 2, line.form_part)

\* parse_form_part_header: [ok, form_part]
parse_form_part_header(header_bytes) ==
    parse_form_part_header_from(
        IF IsSuffix(<<CR, LF>>, header_bytes) THEN header_bytes ELSE header_bytes \o <<CR, LF>>,
        0, EmptyFormPart)

----
\* core/parser/multipart.rs: MultipartParser

FORM_PART_HEADER_TERMINATOR == <<CR, LF, CR, LF>>
FORM_PART_END == <<"-", "-", CR, LF>>
CRLF_BREAK == <<CR, LF>>
ScanBoundary(boundary) == <<"-", "-">> \o boundary \o <<CR, LF>>
ValueTerminator(boundary) == <<CR, LF, "-", "-">> \o boundary

FieldError(kind, field) == [ok |-> FALSE, err |-> kind, field |-> field]
ParseOk == [ok |-> TRUE, err |-> "none", field |-> <<>>]

\* Vec push under a key of FormData / Files
Push(map, key, item) ==
    IF key \in DOMAIN map THEN [map EXCEPT ![key] = Append(@, item)]
    ELSE [k \in DOMAIN map \cup {key} |-> IF k = key THEN <<item>> ELSE map[k]]

\* MultipartParser::from and the locals of parse before its first turn
MultipartLocals ==
    [pc |-> "boundary", allow_next_header_read |-> TRUE, first_header_scanned |-> FALSE,
     buffer |-> <<>>, bytes_read |-> 0, form_part |-> EmptyFormPart, temp_file |-> <<>>,
     form_data |-> <<>>, files |-> <<>>, result |-> FieldError("none", <<>>)]

Fail(l, kind, field) == [l EXCEPT !.pc = "done", !.result = FieldError(kind, field)]

\* parse, lines 74-116: the part that next_form_value completed is stored; parse
\* returns when it was the last one, otherwise next_form_header starts over
StorePart(l, form_part, parsing_completed) ==
    LET field_name == form_part.name.bytes
        stored ==
            IF form_part.filename.some
            THEN [l EXCEPT !.files = Push(@, field_name,
                                 [name |-> form_part.filename.bytes,
                                  content |-> form_part.file.bytes])]
            ELSE IF form_part.value.some
                 THEN [l EXCEPT !.form_data = Push(@, field_name, form_part.value.bytes)]
                 ELSE l
    IN IF parsing_completed
       THEN [stored EXCEPT !.pc = "done", !.result = ParseOk, !.form_part = form_part,
                           !.allow_next_header_read = TRUE]
       ELSE [stored EXCEPT !.pc = "header", !.buffer = <<>>, !.bytes_read = 0,
                           !.form_part = EmptyFormPart, !.temp_file = <<>>,
                           !.allow_next_header_read = TRUE]

\* the captured text value: "Some clients sends single CRLF and some double CRLF"
ValueOf(to_copy) ==
    IF Len(to_copy) > 1 /\ Take(to_copy, Len(to_copy) - Len(CRLF_BREAK)) = CRLF_BREAK
    THEN Take(to_copy, Len(to_copy) - 1)
    ELSE to_copy

\* parse_value, one pass of its loop over what has been read so far
parse_value_scan(s, l, c) ==
    LET field_name == l.form_part.name.bytes
        scan_boundary == ValueTerminator(c.boundary)
        position == Find(l.buffer, scan_boundary)
        rest == Drop(l.buffer, position + Len(scan_boundary))
        part == [l.form_part EXCEPT !.value = Some(ValueOf(Take(l.buffer, position)))]
    IN IF l.bytes_read > max_size_for_field(c, field_name, s.buffer_size)
       THEN [stream |-> s, st |-> Fail(l, "MaxValueSizeExceed", field_name)]
       ELSE IF position >= 0
               /\ Len(l.buffer) >= position + Len(scan_boundary) + Len(FORM_PART_END)
       THEN IF Take(rest, Len(FORM_PART_END)) = FORM_PART_END
            THEN [stream |-> s, st |-> StorePart(l, part, TRUE)]
            ELSE [stream |-> restore_payload(s, Drop(rest, Len(CRLF_BREAK))),
                  st |-> StorePart(l, part, FALSE)]
       ELSE [stream |-> s, st |-> l]

\* a parse_file that copies nothing before the terminator has been found
parse_file_copy_late(scan_buffer, matched_position, terminator_len) == 0

\* parse_file, "Copy data": how many bytes of the scan buffer go to
\* the temporary file before the next read_chunk
parse_file_copy(scan_buffer, matched_position, terminator_len) ==
    IF Len(scan_buffer) > terminator_len THEN Len(scan_buffer) - terminator_len ELSE 0

\* parse_file, one pass of its loop over what has been read so far
parse_file_scan(s, l, c) ==
    LET field_name == l.form_part.name.bytes
        value_terminator == ValueTerminator(c.boundary)
        matched_position == Find(l.buffer, value_terminator)
        rest == Drop(l.buffer, matched_position + Len(value_terminator))
        part == [l.form_part EXCEPT
                    !.file = Some(l.temp_file \o Take(l.buffer, matched_position))]
        to_copy_position == parse_file_copy(l.buffer, matched_position, Len(value_terminator))
    IN IF l.bytes_read > max_size_for_file(c, field_name, s.buffer_size)
       THEN [stream |-> s, st |-> Fail(l, "MaxFileSizeExceed", field_name)]
       ELSE IF matched_position >= 0
               /\ Len(l.buffer) >= matched_position + Len(value_terminator)
                                      + Len(FORM_PART_END)
       THEN IF Take(rest, Len(FORM_PART_END)) = FORM_PART_END
            THEN [stream |-> s, st |-> StorePart(l, part, TRUE)]
            ELSE [stream |-> restore_payload(s, Drop(rest, Len(CRLF_BREAK))),
                  st |-> StorePart(l, part, FALSE)]
       ELSE [stream |-> s,
             st |-> [l EXCEPT !.temp_file = @ \o Take(l.buffer, to_copy_position),
                              !.buffer = Drop(@, to_copy_position)]]

\* a next_form_value that starts the body phase of a part without a name
next_form_value_unnamed(l, form_part) ==
    IF l.allow_next_header_read THEN Fail(l, "Others", <<>>)
    ELSE [l EXCEPT !.pc = IF form_part.filename.some THEN "file" ELSE "value",
                   !.buffer = <<>>, !.bytes_read = 0, !.temp_file = <<>>,
                   !.form_part = form_part]

\* next_form_value as parse calls it on the part whose header was just read
next_form_value_enter(l, form_part) ==
    IF l.allow_next_header_read THEN Fail(l, "Others", <<>>)
    ELSE IF ~form_part.name.some THEN Fail(l, "Others", <<>>)
    ELSE [l EXCEPT !.pc = IF form_part.filename.some THEN "file" ELSE "value",
                   !.buffer = <<>>, !.bytes_read = 0, !.temp_file = <<>>,
                   !.form_part = form_part]

\* next_form_header, lines 172-200: one pass of its loop
next_form_header_scan(s, l, c) ==
    LET position == Find(l.buffer, FORM_PART_HEADER_TERMINATOR)
        restore_bytes == Drop(l.buffer, position + Len(FORM_PART_HEADER_TERMINATOR))
        header == parse_form_part_header(Take(l.buffer, position))
        denied == [l EXCEPT !.allow_next_header_read = FALSE]
    IN IF l.bytes_read > max_header_size(c, s.buffer_size)
       THEN [stream |-> s, st |-> Fail(l, "MaxHeaderSizeExceed", <<>>)]
       ELSE IF position >= 0
       THEN [stream |-> restore_payload(s, restore_bytes),
             st |-> IF header.ok THEN next_form_value_enter(denied, header.form_part)
                    ELSE Fail(denied, "Others", <<>>)]
       ELSE [stream |-> s, st |-> l]

\* next_form_header, lines 139-168: the opening delimiter of the first part
first_boundary_scan(s, l, c) ==
    LET scan_boundary == ScanBoundary(c.boundary)
    IN IF Len(l.buffer) < Len(scan_boundary) THEN [stream |-> s, st |-> l]
       ELSE IF ~IsPrefix(scan_boundary, l.buffer)
       THEN [stream |-> s, st |-> Fail(l, "Others", <<>>)]
       ELSE next_form_header_scan(s,
                [l EXCEPT !.pc = "header", !.buffer = Drop(@, Len(scan_boundary)),
                          !.first_header_scanned = TRUE], c)

\* One read_chunk of MultipartParser::parse and everything it does with the chunk
\* until it needs the next one (or returns).
multipart_turn(s, l, c, n) ==
    LET r == read_chunk(s, n)
        got == [l EXCEPT !.bytes_read = @ + Len(r.res.bytes), !.buffer = @ \o r.res.bytes]
    IN IF ~r.res.ok THEN [stream |-> r.stream, st |-> Fail(l, "Others", <<>>)]
       ELSE IF l.pc = "boundary" THEN first_boundary_scan(r.stream, got, c)
       ELSE IF l.pc = "header" THEN next_form_header_scan(r.stream, got, c)
       ELSE IF l.pc = "value" THEN parse_value_scan(r.stream, got, c)
       ELSE parse_file_scan(r.stream, got, c)

\* MultipartParser::parse on a stream that delivers everything it has in each read
RECURSIVE multipart_run(_, _, _)
multipart_run(s, l, c) ==
    IF l.pc = "done" THEN l
    ELSE LET t == multipart_turn(s, l, c, Min(s.buffer_size, Len(s.transport)))
         IN multipart_run(t.stream, t.st, c)

----
\* Specification SpecMultipart: MultipartParser::parse on the body of one request.

MaxChunkM == 2

Boundary == <<"B">>
ContentDispositionHeader ==
    <<"C", "o", "n", "t", "e", "n", "t", "-", "D", "i", "s", "p", "o", "s", "i", "t", "i", "o",
    "n", ":", " ", "f", "o", "r", "m", "-", "d", "a", "t", "a", ";", " ", "n", "a", "m", "e",
    "=">>
ContentTypeHeader ==
    <<"C", "o", "n", "t", "e", "n", "t", "-", "T", "y", "p", "e", ":", " ", "t", "e", "x", "t",
    "/", "p", "l", "a", "i", "n">>

\* the bytes a client sends for one form part: delimiter line, part headers, payload
PartBytes(part) ==
    ScanBoundary(Boundary)
    \o ContentDispositionHeader \o <<QUOTE>> \o part.name \o <<QUOTE>>
    \o (IF part.filename.some
        THEN <<";", SP>> \o AttrFilename \o <<"=", QUOTE>> \o part.filename.bytes
             \o <<QUOTE, CR, LF>> \o ContentTypeHeader
        ELSE <<>>)
    \o FORM_PART_HEADER_TERMINATOR \o part.payload \o CRLF_BREAK

RECURSIVE BodyBytes(_)
BodyBytes(parts) ==
    IF parts = <<>> THEN <<"-", "-">> \o Boundary \o FORM_PART_END
    ELSE PartBytes(Head(parts)) \o BodyBytes(Tail(parts))

\* what the parts mean: the field map and the file map
RECURSIVE FieldsOf(_, _)
FieldsOf(parts, acc) ==
    IF parts = <<>> THEN acc
    ELSE FieldsOf(Tail(parts),
                  IF Head(parts).filename.some THEN acc
                  ELSE Push(acc, Head(parts).name, Head(parts).payload))
RECURSIVE FilesOf(_, _)
FilesOf(parts, acc) ==
    IF parts = <<>> THEN acc
    ELSE FilesOf(Tail(parts),
                 IF Head(parts).filename.some
                 THEN Push(acc, Head(parts).name,
                           [name |-> Head(parts).filename.bytes,
                            content |-> Head(parts).payload])
                 ELSE acc)

TextPart(name, value) == [name |-> name, filename |-> None, payload |-> value]
FilePart(name, filename, content) ==
    [name |-> name, filename |-> Some(filename), payload |-> content]

Parts ==
    { TextPart(<<"a">>, <<>>), TextPart(<<"a">>, <<"x">>), TextPart(<<"a">>, <<"x", "y">>),
      TextPart(<<"f">>, <<"x", "y", "z">>), TextPart(<<"a">>, <<CR, LF, "x", "y">>),
      FilePart(<<"f">>, <<"t">>, <<>>), FilePart(<<"f">>, <<"t">>, <<"x", "y">>),
      FilePart(<<"a">>, <<>>, <<"x", CR, LF, "-", "y", "z", "x">>) }

Forms == {<<p>> : p \in Parts}
         \cup {<<p, q>> : p \in {TextPart(<<"a">>, <<"x">>), FilePart(<<"f">>, <<"t">>, <<"x", "y">>)},
                          q \in {TextPart(<<"a">>, <<"x", "y">>),
                                 FilePart(<<"f">>, <<"t">>, <<"x", "y">>)}}

FormLimits ==
    { [max_header_size |-> h, max_file_size |-> v, max_value_size |-> v,
       custom_max_sizes |-> cm] :
         h \in {1, 200}, v \in {2, 200},
         cm \in {<<>>, [n \in {<<"a">>} |-> 2]} }

InitMultipart ==
    /\ \E f \in Forms :
         msg = [kind |-> "multipart", parts |-> f,
                fields |-> FieldsOf(f, <<>>), files |-> FilesOf(f, <<>>)]
    /\ wire = BodyBytes(msg.parts)
    /\ \/ \E k \in Kinds, bs \in 1..MaxChunkM : stream = NewStream(k, wire, bs)
       \/ stream = NewStream("test", wire, Len(wire))
    /\ \E lim \in FormLimits : cfg = lim @@ [kind |-> "form", boundary |-> Boundary]
    /\ task = "multipart"
    /\ st = MultipartLocals
    /\ last = NoCall
    /\ consumed = <<>>
    /\ held = <<>>
    /\ flags = CleanFlags

MultipartTurn ==
    /\ task = "multipart" /\ st.pc # "done"
    /\ \E n \in ReadSizes(stream) :
         LET t == multipart_turn(stream, st, cfg, n)
         IN /\ stream' = t.stream
            /\ st' = t.st
    /\ UNCHANGED <<wire, msg, cfg, task, last, consumed, held, flags>>

NextMultipart == MultipartTurn

SpecMultipart == InitMultipart /\ [][NextMultipart]_vars

----
\* core/parser/multipart.rs: next_form_header and next_form_value as calls of a
\* caller other than parse. The caller keeps the FormPart of the last header that
\* was returned; returned lists the calls that have returned, each with the number
\* of read_chunk calls it made.

PartsLocals ==
    [parser |-> MultipartLocals, call |-> "none", reads |-> 0, part |-> EmptyFormPart,
     returned |-> <<>>]

Returned(a, result, completed) ==
    [a EXCEPT !.call = "none", !.reads = 0,
              !.returned = Append(@, [op |-> a.call, ok |-> result.ok, err |-> result.err,
                                      completed |-> completed, reads |-> a.reads])]

\* next_form_header, lines 119-137: the guard and the fresh locals of the call
next_form_header_enter(l) ==
    IF ~l.allow_next_header_read THEN Fail(l, "Others", <<>>)
    ELSE [l EXCEPT !.pc = IF l.first_header_scanned THEN "header" ELSE "boundary",
                   !.buffer = <<>>, !.bytes_read = 0, !.result = FieldError("none", <<>>)]

\* what the running call does once the chunk has been scanned: p is the parser
\* after the scan. (Every part of the inputs below carries a Content-Disposition
\* line, so a header that names no field is a failed header.)
form_call_scanned(a, p) ==
    IF a.call = "header"
    THEN IF p.pc \in {"boundary", "header"} THEN [a EXCEPT !.parser = p]
         ELSE IF p.pc = "done" THEN Returned([a EXCEPT !.parser = p], p.result, FALSE)
         ELSE Returned([a EXCEPT !.parser = p, !.part = p.form_part], ParseOk, FALSE)
    ELSE IF p.pc \in {"value", "file"} THEN [a EXCEPT !.parser = p]
         ELSE IF p.pc = "done" THEN Returned([a EXCEPT !.parser = p], p.result, p.result.ok)
         ELSE Returned([a EXCEPT !.parser = p], ParseOk, FALSE)

\* One read_chunk of the running call and everything the call does with the chunk
\* until it needs the next one or returns.
form_call_turn(s, a, c, n) ==
    LET t == multipart_turn(s, a.parser, c, n)
    IN [stream |-> t.stream, st |-> form_call_scanned([a EXCEPT !.reads = @ + 1], t.st)]

\* the call after its guard: entered is the parser the guard left
form_call_entered(a, entered) ==
    IF entered.pc = "done" THEN Returned(a, entered.result, FALSE)
    ELSE [a EXCEPT !.parser = entered]

\* a call from its first line to its first read_chunk, or to its return when the
\* guard refuses it
form_call(a, op, form_part) ==
    form_call_entered([a EXCEPT !.call = op, !.reads = 0],
        IF op = "header" THEN next_form_header_enter(a.parser)
        ELSE next_form_value_enter(
                 [a.parser EXCEPT !.result = FieldError("none", <<>>)], form_part))

----
\* Specification SpecNameless: MultipartParser::parse on a body one part of which
\* has no name attribute; the payload of that part is "z".

FormDataLine == Take(ContentDispositionHeader, Len(ContentDispositionHeader) - Len(AttrName) - 1)

\* the header lines of a part without a name
NamelessHeaders ==
    { ContentDispositionHeader \o <<"a">>,
      FormDataLine \o AttrFilename \o <<"=", QUOTE, "t", QUOTE>>,
      FormDataLine \o AttrFilename \o <<"=", QUOTE, "t", QUOTE, CR, LF>> \o ContentTypeHeader,
      ContentTypeHeader }

NamelessPartBytes(headers) ==
    ScanBoundary(Boundary) \o headers \o FORM_PART_HEADER_TERMINATOR \o <<"z">> \o CRLF_BREAK

NamelessBodies(h) ==
    {before \o NamelessPartBytes(h) \o after \o BodyBytes(<<>>) :
        before \in {<<>>, PartBytes(TextPart(<<"a">>, <<"x">>))},
        after \in {<<>>, PartBytes(FilePart(<<"f">>, <<"t">>, <<"x", "y">>))}}

InitNameless ==
    /\ \E h \in NamelessHeaders : msg = [kind |-> "nameless", headers |-> h]
    /\ wire \in NamelessBodies(msg.headers)
    /\ \/ \E k \in Kinds, bs \in 1..MaxChunkM : stream = NewStream(k, wire, bs)
       \/ stream = NewStream("test", wire, Len(wire))
    /\ cfg = [max_header_size |-> 200, max_file_size |-> 200, max_value_size |-> 200,
              custom_max_sizes |-> <<>>, kind |-> "form", boundary |-> Boundary]
    /\ task = "multipart"
    /\ st = MultipartLocals
    /\ last = NoCall
    /\ consumed = <<>>
    /\ held = <<>>
    /\ flags = CleanFlags

SpecNameless == InitNameless /\ [][NextMultipart]_vars

----
\* Specification SpecValue: the captured bytes of one text part, as parse_value
\* turns them into the value of the field.

MaxValueLen == 4

InitValue ==
    /\ stream = NewStream("test", <<>>, 1)
    /\ wire = <<>>
    /\ msg = [kind |-> "value"]
    /\ cfg = [kind |-> "none"]
    /\ task = "value"
    /\ \E to_copy \in SeqsUpTo({"x", CR, LF}, MaxValueLen) :
         st = [to_copy |-> to_copy, copied |-> FALSE, value |-> <<>>]
    /\ last = NoCall
    /\ consumed = <<>>
    /\ held = <<>>
    /\ flags = CleanFlags

ValueCopy ==
    /\ task = "value" /\ ~st.copied
    /\ st' = [st EXCEPT !.copied = TRUE, !.value = ValueOf(st.to_copy)]
    /\ UNCHANGED <<stream, wire, msg, cfg, task, last, consumed, held, flags>>

NextValue == ValueCopy

SpecValue == InitValue /\ [][NextValue]_vars

----
\* Specification SpecParts: a caller drives one MultipartParser with
\* next_form_header and next_form_value in any order. A call is one step up to
\* its first read_chunk and one step for each read_chunk.

MaxFormCalls == 5

NamedPart == [EmptyFormPart EXCEPT !.name = Some(<<"a">>)]

\* a part whose Content-Disposition line has no quoted name
BrokenPartBytes ==
    ScanBoundary(Boundary) \o ContentDispositionHeader \o <<"a">>
    \o FORM_PART_HEADER_TERMINATOR \o <<"x">> \o CRLF_BREAK

\* what may follow the closing delimiter on the connection
Epilogues == {<<>>, PartBytes(TextPart(<<"a">>, <<"y">>))}

PartsWires ==
    {BodyBytes(f) \o e :
        f \in {<<TextPart(<<"a">>, <<"x">>)>>, <<FilePart(<<"f">>, <<"t">>, <<"x", "y">>)>>,
               <<TextPart(<<"a">>, <<"x">>), TextPart(<<"f">>, <<"x", "y", "z">>)>>},
        e \in Epilogues}
    \cup {BrokenPartBytes \o BodyBytes(<<>>)}

InitParts ==
    /\ wire \in PartsWires
    /\ msg = [kind |-> "parts"]
    /\ \/ stream = NewStream("tcp", wire, 1)
       \/ \E bs \in {16, Len(wire)} : stream = NewStream("test", wire, bs)
    /\ cfg = [max_header_size |-> 200, max_file_size |-> 200, max_value_size |-> 200,
              custom_max_sizes |-> <<>>, kind |-> "form", boundary |-> Boundary]
    /\ task = "parts"
    /\ st = PartsLocals
    /\ last = NoCall
    /\ consumed = <<>>
    /\ held = <<>>
    /\ flags = CleanFlags

PartsNextHeader ==
    /\ task = "parts" /\ st.call = "none" /\ Len(st.returned) < MaxFormCalls
    /\ st' = form_call(st, "header", EmptyFormPart)
    /\ UNCHANGED <<stream, wire, msg, cfg, task, last, consumed, held, flags>>

PartsNextValue ==
    /\ task = "parts" /\ st.call = "none" /\ Len(st.returned) < MaxFormCalls
    /\ \E form_part \in {st.part, NamedPart} : st' = form_call(st, "value", form_part)
    /\ UNCHANGED <<stream, wire, msg, cfg, task, last, consumed, held, flags>>

PartsTurn ==
    /\ task = "parts" /\ st.call # "none"
    /\ \E n \in ReadSizes(stream) :
         LET t == form_call_turn(stream, st, cfg, n)
         IN /\ stream' = t.stream
            /\ st' = t.st
    /\ UNCHANGED <<wire, msg, cfg, task, last, consumed, held, flags>>

NextParts == PartsNextHeader \/ PartsNextValue \/ PartsTurn

SpecParts == InitParts /\ [][NextParts]_vars

----
\* core/headers/mod.rs: HeaderValue::value. The HashMap is iterated in an order the
\* program does not fix, given here as order (the keys of h, each once); the first
\* key equal to name without regard to case that has a value decides.

ContentLengthName ==
    <<"C", "o", "n", "t", "e", "n", "t", "-", "L", "e", "n", "g", "t", "h">>

Orders(h) ==
    {o \in SeqsUpTo(DOMAIN h, Cardinality(DOMAIN h)) :
        /\ Len(o) = Cardinality(DOMAIN h)
        /\ \A k \in DOMAIN h : \E i \in 1..Len(o) : o[i] = k}

RECURSIVE value(_, _, _)
value(h, name, order) ==
    IF order = <<>> THEN None
    ELSE IF ToLowercase(Head(order)) # ToLowercase(name) THEN value(h, name, Tail(order))
    ELSE IF Len(h[Head(order)]) > 0 THEN Some(h[Head(order)][1])
    ELSE value(h, name, Tail(order))

\* HeaderValue::multiple_values: of every key equal to name without regard to case,
\* values.get(0)
RECURSIVE multiple_values(_, _, _)
multiple_values(h, name, order) ==
    IF order = <<>> THEN <<>>
    ELSE IF ToLowercase(Head(order)) # ToLowercase(name)
    THEN multiple_values(h, name, Tail(order))
    ELSE IF Len(h[Head(order)]) > 0
    THEN <<h[Head(order)][1]>> \o multiple_values(h, name, Tail(order))
    ELSE multiple_values(h, name, Tail(order))

----
\* Specification SpecHeaderMap: set and set_multiple called on one Headers map, the
\* names differing in case only or not at all.

MaxHeaderCalls == 3

HeaderNames == {<<"T", "L">>, <<"t", "l">>, <<"C">>}
LookupNames == HeaderNames \cup {<<"t", "L">>, <<"c">>}
HeaderValues == {<<"1">>, <<"2">>}

HeaderMapLocals ==
    [headers |-> EmptyHeaders, before |-> EmptyHeaders, op |-> "none", name |-> <<>>,
     value |-> <<>>, calls |-> 0]

InitHeaderMap ==
    /\ stream = NewStream("test", <<>>, 1)
    /\ wire = <<>>
    /\ msg = [kind |-> "headers"]
    /\ cfg = [kind |-> "none"]
    /\ task = "headermap"
    /\ st = HeaderMapLocals
    /\ last = NoCall
    /\ consumed = <<>>
    /\ held = <<>>
    /\ flags = CleanFlags

HeaderMapSet ==
    /\ task = "headermap" /\ st.calls < MaxHeaderCalls
    /\ \E name \in HeaderNames, v \in HeaderValues :
         st' = [headers |-> set(st.headers, name, v), before |-> st.headers, op |-> "set",
                name |-> name, value |-> v, calls |-> st.calls + 1]
    /\ UNCHANGED <<stream, wire, msg, cfg, task, last, consumed, held, flags>>

HeaderMapSetMultiple ==
    /\ task = "headermap" /\ st.calls < MaxHeaderCalls
    /\ \E name \in HeaderNames, v \in HeaderValues :
         st' = [headers |-> set_multiple(st.headers, name, v), before |-> st.headers,
                op |-> "set_multiple", name |-> name, value |-> v, calls |-> st.calls + 1]
    /\ UNCHANGED <<stream, wire, msg, cfg, task, last, consumed, held, flags>>

NextHeaderMap == HeaderMapSet \/ HeaderMapSetMultiple

SpecHeaderMap == InitHeaderMap /\ [][NextHeaderMap]_vars

----
\* str::parse::<usize>: an optional "+", then one or more decimal digits. (The
\* texts of this model have at most two digits, far from usize::MAX.)

Digits == <<"0", "1", "2", "3", "4", "5", "6", "7", "8", "9">>
IsDigit(ch) == \E i \in 1..Len(Digits) : Digits[i] = ch
DigitValue(ch) == (CHOOSE i \in 1..Len(Digits) : Digits[i] = ch) - 1

RECURSIVE ParseDigits(_, _)
ParseDigits(str, acc) ==
    IF str = <<>> THEN [ok |-> TRUE, n |-> acc]
    ELSE IF ~IsDigit(Head(str)) THEN [ok |-> FALSE, n |-> 0]
    ELSE ParseDigits(Tail(str), acc * Len(Digits) + DigitValue(Head(str)))

parse_usize(str) ==
    IF str = <<>> THEN [ok |-> FALSE, n |-> 0]
    ELSE LET digits == IF Head(str) = "+" THEN Tail(str) ELSE str
         IN IF digits = <<>> THEN [ok |-> FALSE, n |-> 0] ELSE ParseDigits(digits, 0)

----
\* urlencoding::decode as parse_url_encoded uses it: "%" followed by two hex digits
\* becomes the byte, any other "%" stays; the result must be UTF-8. The hex digits
\* of this model are 1, 4 and F.

HexDigits == {"1", "4", "F"}

\* the byte written %h1h2
ByteOf(h1, h2) ==
    CASE h1 = "4" /\ h2 = "1" -> "A"
      [] h1 = "4" /\ h2 = "4" -> "D"
      [] h1 = "4" /\ h2 = "F" -> "O"
      [] h1 = "1" /\ h2 = "1" -> "DC1"
      [] h1 = "1" /\ h2 = "4" -> "DC4"
      [] h1 = "1" /\ h2 = "F" -> "US"
      [] h1 = "F" /\ h2 = "1" -> "xF1"
      [] h1 = "F" /\ h2 = "4" -> "xF4"
      [] h1 = "F" /\ h2 = "F" -> "xFF"

\* bytes that are not UTF-8 by themselves (no continuation byte can follow here)
NotUtf8 == {"xF1", "xF4", "xFF"}

RECURSIVE decode_binary(_)
decode_binary(str) ==
    IF str = <<>> THEN <<>>
    ELSE IF /\ Head(str) = "%" /\ Len(str) >= 3
            /\ str[2] \in HexDigits /\ str[3] \in HexDigits
    THEN <<ByteOf(str[2], str[3])>> \o decode_binary(Drop(str, 3))
    ELSE <<Head(str)>> \o decode_binary(Tail(str))

\* match urlencoding::decode(s) { Ok(value) => value, Err(_) => s }
decode_or_raw(str) ==
    LET bytes == decode_binary(str)
    IN IF \E i \in 1..Len(bytes) : bytes[i] \in NotUtf8 THEN str ELSE bytes

----
\* core/parser/mod.rs: parse_url_encoded. A failed unwrap ends the task: panic.

\* str::split on a one-character separator
RECURSIVE Split(_, _)
Split(str, sep) ==
    LET hits == {i \in 1..Len(str) : str[i] = sep}
    IN IF hits = {} THEN <<str>>
       ELSE <<Take(str, MinOf(hits) - 1)>> \o Split(Drop(str, MinOf(hits)), sep)

\* HashMap::insert
Insert(map, key, item) ==
    [k \in DOMAIN map \cup {key} |-> IF k = key THEN item ELSE map[k]]

RECURSIVE parse_url_encoded_values(_, _)
parse_url_encoded_values(values, params) ==
    IF values = <<>> THEN [panic |-> FALSE, params |-> params]
    ELSE LET key_values == Split(Head(values), "=")
         IN IF Len(key_values) < 2 THEN parse_url_encoded_values(Tail(values), params)
            ELSE LET name == key_values[1]
                     name_formatted == decode_or_raw(name)
                     value_formatted == decode_or_raw(key_values[2])
                     inserted == IF name_formatted \notin DOMAIN params
                                 THEN Insert(params, name, <<>>) ELSE params
                 IN IF name_formatted \notin DOMAIN inserted
                    THEN [panic |-> TRUE, params |-> inserted]
                    ELSE parse_url_encoded_values(Tail(values),
                             [inserted EXCEPT ![name_formatted] = Append(@, value_formatted)])

parse_url_encoded(text) ==
    IF Len(text) = 0 THEN [panic |-> FALSE, params |-> <<>>]
    ELSE parse_url_encoded_values(Split(text, "&"), <<>>)

----
\* core/parser/urlencoded.rs: UrlEncodedParser

\* from with a Content-Length that is missing or unreadable taken as 0
from_or_zero(headers, order) ==
    LET v == value(headers, ContentLengthName, order)
        p == parse_usize(v.bytes)
    IN [ok |-> TRUE, err |-> "none", content_length |-> IF v.some /\ p.ok THEN p.n ELSE 0]

\* UrlEncodedParser::from
from(headers, order) ==
    LET v == value(headers, ContentLengthName, order)
        p == parse_usize(v.bytes)
    IN IF v.some
       THEN IF p.ok THEN [ok |-> TRUE, err |-> "none", content_length |-> p.n]
            ELSE [ok |-> FALSE, err |-> "Others", content_length |-> 0]
       ELSE [ok |-> FALSE, err |-> "Others", content_length |-> 0]

UrlLocals ==
    [pc |-> "from", content_length |-> 0, buffer |-> <<>>,
     result |-> FieldError("none", <<>>), params |-> <<>>]

\* read_query_params_from_stream, top of the loop: enough bytes end the read
url_loop_top(l) ==
    IF Len(l.buffer) >= l.content_length
    THEN LET r == parse_url_encoded(l.buffer)
         IN IF r.panic THEN Fail(l, "panic", <<>>)
            ELSE [l EXCEPT !.pc = "done", !.result = ParseOk, !.params = r.params]
    ELSE [l EXCEPT !.pc = "read"]

\* UrlEncodedParser::parse up to its first read_chunk
urlencoded_parse_enter(s, l, c, headers, order) ==
    LET parser == from(headers, order)
    IN IF ~parser.ok THEN Fail(l, parser.err, <<>>)
       ELSE IF parser.content_length > max_body_size(c, s.buffer_size)
       THEN Fail([l EXCEPT !.content_length = parser.content_length],
                 "MaxBodySizeExceed", <<>>)
       ELSE url_loop_top([l EXCEPT !.content_length = parser.content_length])

\* one read_chunk of read_query_params_from_stream and the loop up to the next one
read_query_params_turn(s, l, n) ==
    LET r == read_chunk(s, n)
    IN IF ~r.res.ok
       THEN [stream |-> r.stream, st |-> Fail(l, "Others", <<>>), call |-> ReadCall(s, r)]
       ELSE [stream |-> r.stream,
             st |-> url_loop_top([l EXCEPT !.buffer = @ \o r.res.bytes]),
             call |-> ReadCall(s, r)]

----
\* Specification SpecUrl: UrlEncodedParser::parse on the body of one request, which
\* bytes of the next request may follow on the same connection.

MaxChunkU == 2

RECURSIVE ToDecimal(_)
ToDecimal(n) ==
    IF n < Len(Digits) THEN <<Digits[n + 1]>>
    ELSE ToDecimal(n \div Len(Digits)) \o <<Digits[(n % Len(Digits)) + 1]>>

\* The bodies a client sends, each with the pairs it stands for (names and values
\* as the client meant them, before encoding); form is "plain" for key=value pairs
\* without escapes, "escaped" for pairs with percent-escapes (decodable or not),
\* "other" for a body that is not a list of key=value pairs.
Pair(name, val) == [name |-> name, value |-> val]
UrlBody(bytes, form, pairs) == [body |-> bytes, form |-> form, pairs |-> pairs]
UrlBodies ==
    { UrlBody(<<>>, "plain", <<>>),
      UrlBody(<<"a", "=", "1">>, "plain", <<Pair(<<"a">>, <<"1">>)>>),
      UrlBody(<<"a", "=", "2", "&", "a", "=", "1">>, "plain",
              <<Pair(<<"a">>, <<"2">>), Pair(<<"a">>, <<"1">>)>>),
      UrlBody(<<"b", "=", "1", "&", "a", "=", "2">>, "plain",
              <<Pair(<<"b">>, <<"1">>), Pair(<<"a">>, <<"2">>)>>),
      UrlBody(<<"a", "=", "1", "&", "b">>, "other", <<>>),
      UrlBody(<<"a", "=", "1", "=", "2">>, "other", <<>>),
      UrlBody(<<"a", "=", "%", "4", "1">>, "escaped", <<Pair(<<"a">>, <<"A">>)>>),
      UrlBody(<<"a", "=", "%", "4">>, "escaped", <<Pair(<<"a">>, <<"%", "4">>)>>),
      UrlBody(<<"a", "=", "%", "F", "1">>, "escaped", <<Pair(<<"a">>, <<"%", "F", "1">>)>>),
      UrlBody(<<"%", "4", "1", "=", "1">>, "escaped", <<Pair(<<"A">>, <<"1">>)>>),
      UrlBody(<<"A", "=", "1", "&", "%", "4", "1", "=", "2">>, "escaped",
              <<Pair(<<"A">>, <<"1">>), Pair(<<"A">>, <<"2">>)>>),
      UrlBody(<<"a", "=", "1", "2", "3", "4", "5", "6", "7", "8">>, "plain",
              <<Pair(<<"a">>, <<"1", "2", "3", "4", "5", "6", "7", "8">>)>>) }

\* the Content-Length values a client may send with a body of n bytes
LengthTexts(n) ==
    {ToDecimal(n), ToDecimal(n + 1), <<"+">> \o ToDecimal(n)}
        \cup {ToDecimal(n - 1) : k \in {1} \cap 1..n}
BadLengthTexts == {<<>>, <<"x">>, <<"+">>, <<"-", "1">>, <<SP, "1">>}

UrlHeaders(n) ==
    LET lower == ToLowercase(ContentLengthName)
        one(name, v) == [k \in {name} |-> <<v>>]
    IN {EmptyHeaders, one(<<"A">>, <<"1">>)}
        \cup {one(ContentLengthName, v) : v \in LengthTexts(n) \cup BadLengthTexts}
        \cup {one(lower, v) : v \in {ToDecimal(n), <<"x">>}}
        \cup {set_multiple(one(ContentLengthName, ToDecimal(n)), ContentLengthName, <<"x">>)}
        \cup {set_multiple(one(ContentLengthName, v), lower, w) :
                 v \in {ToDecimal(n), <<"x">>}, w \in {ToDecimal(n), <<"-", "1">>}}

InitUrl ==
    /\ \E b \in UrlBodies, nx \in {<<>>, <<"G">>} : \E h \in UrlHeaders(Len(b.body)) :
         msg = b @@ [kind |-> "urlencoded", next |-> nx, headers |-> h]
    /\ wire = msg.body \o msg.next
    /\ \E k \in Kinds, bs \in (1..MaxChunkU) \cup {Max(1, Len(wire))} :
         stream = NewStream(k, wire, bs)
    /\ \E m \in {1, Len(msg.body), Len(wire) + 1} :
         cfg = [kind |-> "form", max_body_size |-> m]
    /\ task = "urlencoded"
    /\ st = UrlLocals
    /\ last = NoCall
    /\ consumed = <<>>
    /\ held = <<>>
    /\ flags = CleanFlags

UrlParse ==
    /\ task = "urlencoded" /\ st.pc = "from"
    /\ \E order \in Orders(msg.headers) :
         st' = urlencoded_parse_enter(stream, st, cfg, msg.headers, order)
    /\ UNCHANGED <<stream, wire, msg, cfg, task, last, consumed, held, flags>>

UrlTurn ==
    /\ task = "urlencoded" /\ st.pc = "read"
    /\ \E n \in ReadSizes(stream) :
         LET t == read_query_params_turn(stream, st, n)
         IN /\ stream' = t.stream
            /\ st' = t.st
            /\ last' = t.call
    /\ UNCHANGED <<wire, msg, cfg, task, consumed, held, flags>>

NextUrl == UrlParse \/ UrlTurn

SpecUrl == InitUrl /\ [][NextUrl]_vars

----
\* core/server/mod.rs: Server::handle_stream, with core/request/mod.rs:
\* Request::parse_body as the view may call it.

ConnectionName == <<"c", "o", "n", "n", "e", "c", "t", "i", "o", "n">>
KeepAlive == <<"k", "e", "e", "p", "-", "a", "l", "i", "v", "e">>
ContentTypeHeaderName == <<"C", "o", "n", "t", "e", "n", "t", "-", "T", "y", "p", "e">>
MultipartType == <<"m", "u", "l", "t", "i", "p", "a", "r", "t", "/", "f", "o", "r", "m", "-", "d",
      "a", "t", "a">>
UrlEncodedType == <<"a", "p", "p", "l", "i", "c", "a", "t", "i", "o", "n", "/", "x", "-", "w", "w",
      "w", "-", "f", "o", "r", "m", "-", "u", "r", "l", "e", "n", "c", "o", "d",
      "e", "d">>
GetMethod == <<"G", "E", "T">>

\* what the handler does to the connection, in order: op is "read_request_headers"
\* (a call begins), "write_chunk" (of a response with this status) or "shutdown";
\* left counts the bytes that the stream still holds at that moment
Event(op, l, s, status, ok) ==
    [op |-> op, request |-> l.request, status |-> status, ok |-> ok,
     left |-> restored_len(s) + Len(s.transport)]

ServerLocals ==
    [pc |-> "accepted", reader |-> HeaderLocals, parser |-> UrlLocals, request |-> 0,
     is_keep_alive |-> FALSE, body_read |-> TRUE, headers |-> EmptyHeaders,
     method |-> <<>>, over_read |-> 0, events |-> <<>>]

\* handle_stream, lines 514-516: the loop calls read_request_headers
handle_stream_loop(s, l) ==
    LET next == [l EXCEPT !.request = @ + 1]
    IN [next EXCEPT !.pc = "headers", !.reader = HeaderLocals, !.parser = UrlLocals,
                    !.events = Append(@, Event("read_request_headers", next, s, 0, TRUE))]

\* a handler that closes the connection without answering
header_failed_silent(s, l, ok) ==
    [stream |-> shutdown(s),
     st |-> [l EXCEPT !.pc = "closed",
                      !.events = Append(@, Event("shutdown", l, s, 0, TRUE))]]

\* handle_stream, lines 518-528: read_request_headers has returned an error
header_failed(s, l, ok) ==
    [stream |-> shutdown(s),
     st |-> [l EXCEPT !.pc = "closed",
                      !.events = @ \o <<Event("write_chunk", l, s, 431, ok),
                                        Event("shutdown", l, s, 0, TRUE)>>]]

\* a handler that leaves keep-alive to the HTTP version and the Connection header
request_received_unguarded(s, l, result, order) ==
    LET by_version == result.http_version # 0
        connection == value(result.headers, ConnectionName, order)
        by_header == IF connection.some THEN ToLowercase(connection.bytes) = KeepAlive
                     ELSE by_version
    IN [stream |-> s,
        st |-> [l EXCEPT !.pc = "view", !.is_keep_alive = by_header,
                         !.body_read = TRUE, !.headers = result.headers,
                         !.method = result.method, !.over_read = restored_len(s)]]

\* handle_stream, lines 531-621: read_request_headers has returned the request;
\* method and over_read keep the method and restored_len() of that moment
request_received(s, l, result, order) ==
    LET by_version == result.http_version # 0
        connection == value(result.headers, ConnectionName, order)
        by_header == IF connection.some THEN ToLowercase(connection.bytes) = KeepAlive
                     ELSE by_version
        is_keep_alive == IF result.method = GetMethod /\ restored_len(s) > 0 THEN FALSE
                         ELSE by_header
    IN [stream |-> s,
        st |-> [l EXCEPT !.pc = "view", !.is_keep_alive = is_keep_alive,
                         !.body_read = TRUE, !.headers = result.headers,
                         !.method = result.method, !.over_read = restored_len(s)]]

\* one read_chunk of read_request_headers and what handle_stream does when it returns
handle_stream_turn(t, l, order, ok) ==
    LET read == [l EXCEPT !.reader = t.st]
    IN IF t.st.pc # "done" THEN [stream |-> t.stream, st |-> read]
       ELSE IF ~t.st.result.ok THEN header_failed(t.stream, read, ok)
       ELSE request_received(t.stream, read, t.st.result, order)

\* parse_body, lines 154-169: UrlEncodedParser::parse has got as far as l.parser
url_encoded_parsed(l) ==
    IF l.parser.pc = "read" THEN [l EXCEPT !.pc = "parse"]
    ELSE IF l.parser.result.err = "panic" THEN [l EXCEPT !.pc = "aborted"]
    ELSE [l EXCEPT !.pc = "respond", !.body_read = l.parser.result.ok]

\* Request::parse_body up to the first read_chunk of the parser. (The requests of
\* SpecServer are not multipart; MultipartParser::parse is the subject of
\* SpecMultipart.)
parse_body(s, l, c, order) ==
    LET content_type == value(l.headers, ContentTypeHeaderName, order)
        started == [l EXCEPT !.body_read = FALSE]
    IN IF ~content_type.some THEN [l EXCEPT !.pc = "respond"]
       ELSE IF IsPrefix(MultipartType, ToLowercase(content_type.bytes))
       THEN [started EXCEPT !.pc = "multipart"]
       ELSE IF IsPrefix(UrlEncodedType, ToLowercase(content_type.bytes))
       THEN url_encoded_parsed(
                [started EXCEPT
                    !.parser = urlencoded_parse_enter(s, l.parser, c, l.headers, order)])
       ELSE [started EXCEPT !.pc = "respond"]

\* handle_stream, lines 631-657: the view has returned response; ok says whether
\* write_chunk could write
serve_response(s, l, response, ok) ==
    LET is_keep_alive == l.is_keep_alive /\ l.body_read
        written == IF response.serve_default
                   THEN <<Event("write_chunk", l, s, response.status, ok)>> ELSE <<>>
        served == [l EXCEPT !.is_keep_alive = is_keep_alive, !.events = @ \o written]
    IN IF response.serve_default /\ ~ok
       THEN [stream |-> s, st |-> [served EXCEPT !.pc = "closed"]]
       ELSE IF response.should_close \/ ~is_keep_alive
       THEN [stream |-> shutdown(s),
             st |-> [served EXCEPT !.pc = "closed",
                                   !.events = Append(@, Event("shutdown", l, s, 0, TRUE))]]
       ELSE [stream |-> s, st |-> handle_stream_loop(s, served)]

----
\* Specification SpecServer: handle_stream on a connection on which the client has
\* written one or two requests; the view of every request either answers without
\* touching the body or calls Request::parse first.

MaxRequests == 2

Request(head, body) == [head |-> head, body |-> body]
GetHead == RequestLine \o <<CR, LF>>
PostLine(version) == Line(<<"P", "O", "S", "T", " ", "/", " ", "H", "T", "T", "P", "/", "1", ".">> \o <<version>>)
UrlEncodedLine == Line(ContentTypeHeaderName \o <<":", SP>> \o UrlEncodedType)
PlainLine == Line(ContentTypeHeaderName \o <<":", SP>> \o <<"t", "e", "x", "t", "/", "p", "l", "a", "i", "n">>)
LengthLine(n) == Line(ContentLengthName \o <<":", SP>> \o ToDecimal(n))
CloseLine == Line(<<"C", "o", "n", "n", "e", "c", "t", "i", "o", "n", ":", " ", "c", "l", "o", "s",
      "e">>)
FirstRequests ==
    { Request(GetHead, <<>>),
      Request(GetHead, <<"b">>),
      Request(PostLine("1") \o UrlEncodedLine \o LengthLine(3) \o <<CR, LF>>,
              <<"a", "=", "1">>),
      Request(PostLine("1") \o UrlEncodedLine \o LengthLine(3) \o <<CR, LF>>,
              <<"a", "=">>),
      Request(PostLine("1") \o UrlEncodedLine \o LengthLine(3) \o CloseLine \o <<CR, LF>>,
              <<"a", "=", "1">>),
      Request(PostLine("0") \o UrlEncodedLine \o LengthLine(3) \o <<CR, LF>>,
              <<"a", "=", "1">>),
      Request(PostLine("1") \o PlainLine \o LengthLine(1) \o <<CR, LF>>, <<"b">>),
      Request(PostLine("1") \o LengthLine(1) \o <<CR, LF>>, <<"b">>) }
ServerScripts ==
    {<<r>> : r \in FirstRequests}
        \cup {<<r, Request(GetHead, <<>>)>> : r \in {q \in FirstRequests : MaxRequests > 1}}

RECURSIVE RequestEnd(_, _)
RequestEnd(requests, k) ==
    IF k = 0 THEN 0
    ELSE RequestEnd(requests, k - 1) + Len(requests[k].head) + Len(requests[k].body)
RECURSIVE ScriptWire(_)
ScriptWire(requests) ==
    IF requests = <<>> THEN <<>>
    ELSE Head(requests).head \o Head(requests).body \o ScriptWire(Tail(requests))

\* HttpResponse by default, HttpResponse asking to close, WebSocket
Responses ==
    {[status |-> 200, serve_default |-> TRUE, should_close |-> FALSE],
     [status |-> 200, serve_default |-> TRUE, should_close |-> TRUE],
     [status |-> 200, serve_default |-> FALSE, should_close |-> TRUE]}

\* what a write_chunk may return: a socket may fail at any time, the test double
\* fails once it was shut down
WriteResults(s) == IF s.kind = "test" THEN {~s.is_shutdown} ELSE BOOLEAN

InitServer ==
    /\ \E r \in ServerScripts : msg = [kind |-> "requests", requests |-> r]
    /\ wire = ScriptWire(msg.requests)
    /\ \E k \in Kinds :
         \E bs \in IF k = "tcp" THEN {1, 2}
                   ELSE {Len(msg.requests[1].head), Len(wire)} :
             stream = NewStream(k, wire, bs)
    /\ \E m \in {1, Len(wire)} :
         cfg = [kind |-> "server", max_request_header_size |-> m,
                max_header_count |-> 4, max_body_size |-> 8]
    /\ task = "server"
    /\ st = ServerLocals
    /\ last = NoCall
    /\ consumed = <<>>
    /\ held = <<>>
    /\ flags = CleanFlags

\* the connection task starts
ServerAccept ==
    /\ task = "server" /\ st.pc = "accepted"
    /\ st' = handle_stream_loop(stream, st)
    /\ UNCHANGED <<stream, wire, msg, cfg, task, last, consumed, held, flags>>

\* one read_chunk of read_request_headers
ServerHeaderTurn ==
    /\ task = "server" /\ st.pc = "headers"
    /\ \E n \in ReadSizes(stream), ok \in WriteResults(stream) :
         LET t == read_request_headers_turn(stream, st.reader, cfg, n)
             found == IF t.st.result.ok THEN t.st.result.headers ELSE EmptyHeaders
         IN \E order \in Orders(found) :
              /\ stream' = handle_stream_turn(t, st, order, ok).stream
              /\ st' = handle_stream_turn(t, st, order, ok).st
    /\ UNCHANGED <<wire, msg, cfg, task, last, consumed, held, flags>>

\* the view returns without calling Request::parse
ServerViewReturns ==
    /\ task = "server" /\ st.pc = "view"
    /\ st' = [st EXCEPT !.pc = "respond"]
    /\ UNCHANGED <<stream, wire, msg, cfg, task, last, consumed, held, flags>>

\* the view calls Request::parse
ServerViewParses ==
    /\ task = "server" /\ st.pc = "view"
    /\ \E order \in Orders(st.headers) : st' = parse_body(stream, st, cfg, order)
    /\ UNCHANGED <<stream, wire, msg, cfg, task, last, consumed, held, flags>>

\* one read_chunk of UrlEncodedParser::parse
ServerParseTurn ==
    /\ task = "server" /\ st.pc = "parse"
    /\ \E n \in ReadSizes(stream) :
         LET t == read_query_params_turn(stream, st.parser, n)
         IN /\ stream' = t.stream
            /\ st' = url_encoded_parsed([st EXCEPT !.parser = t.st])
    /\ UNCHANGED <<wire, msg, cfg, task, last, consumed, held, flags>>

\* the view has returned its response
ServerRespond ==
    /\ task = "server" /\ st.pc = "respond"
    /\ \E response \in Responses, ok \in WriteResults(stream) :
         /\ stream' = serve_response(stream, st, response, ok).stream
         /\ st' = serve_response(stream, st, response, ok).st
    /\ UNCHANGED <<wire, msg, cfg, task, last, consumed, held, flags>>

NextServer ==
    \/ ServerAccept \/ ServerHeaderTurn \/ ServerViewReturns \/ ServerViewParses
    \/ ServerParseTurn \/ ServerRespond

SpecServer == InitServer /\ [][NextServer]_vars

----
\* core/session/managers.rs: FileSessionManager. The table session of the Sqlite
\* file is a set of rows [session_id, key, value]; the column key is UNIQUE.

SessionRow(session_id, key, v) == [session_id |-> session_id, key |-> key, value |-> v]

\* DELETE FROM session WHERE session_id=$1
session_remove_all(table, session_id, key) ==
    {row \in table : row.session_id # session_id}

\* UPSERT_QUERY: INSERT ... ON CONFLICT(key) DO UPDATE SET session_id, key, value
session_set(table, session_id, key, v) ==
    {row \in table : row.key # key} \cup {SessionRow(session_id, key, v)}

\* FETCH_QUERY: SELECT value ... WHERE session_id=$1 AND key=$2 LIMIT 1, fetch_one
session_get(table, session_id, key) ==
    LET found == {row \in table : row.session_id = session_id /\ row.key = key}
    IN IF found = {} THEN None ELSE Some((CHOOSE row \in found : TRUE).value)

\* DELETE FROM session WHERE session_id=$1 AND key=$2
session_remove(table, session_id, key) ==
    {row \in table : ~(row.session_id = session_id /\ row.key = key)}

\* DELETE FROM session WHERE session_id=$1
session_destroy(table, session_id) ==
    {row \in table : row.session_id # session_id}

\* one call of the manager: db_ok is whether the pool was opened and the query ran;
\* get answers None and the others Err when it did not
SessionCall(l, op, session_id, key, v, db_ok) ==
    [table |-> IF ~db_ok THEN l.table
               ELSE CASE op = "set" -> session_set(l.table, session_id, key, v)
                      [] op = "remove" -> session_remove(l.table, session_id, key)
                      [] op = "destroy" -> session_destroy(l.table, session_id)
                      [] OTHER -> l.table,
     calls |-> l.calls + 1,
     call |-> [op |-> op, session_id |-> session_id, key |-> key, value |-> v,
               db_ok |-> db_ok,
               result |-> IF op = "get"
                          THEN IF db_ok THEN session_get(l.table, session_id, key) ELSE None
                          ELSE IF db_ok THEN Ok(<<>>) ELSE Err("Other")]]

\* what the calls made so far on the session say it holds: the value of the last
\* set of each key that no remove of the key and no destroy has followed
Shadow(values, op, key, v) ==
    CASE op = "set" -> [k \in DOMAIN values \cup {key} |-> IF k = key THEN v ELSE values[k]]
      [] op = "remove" -> [k \in DOMAIN values \ {key} |-> values[k]]
      [] op = "destroy" -> <<>>
      [] OTHER -> values

----
\* Specification SpecSession: calls on one FileSessionManager, for the session s
\* and for another session that uses the key "name" as well.

MaxSessionCalls == 4

SessionKeys == {"name", "location"}
SessionValues == {"John", "ktm"}

InitSession ==
    /\ stream = NewStream("test", <<>>, 1)
    /\ wire = <<>>
    /\ msg = [kind |-> "session", values |-> <<>>, others |-> FALSE]
    /\ cfg = [kind |-> "none"]
    /\ task = "session"
    /\ st = [table |-> {}, calls |-> 0,
             call |-> [op |-> "none", session_id |-> "", key |-> "", value |-> "",
                       db_ok |-> TRUE, result |-> None]]
    /\ last = NoCall
    /\ consumed = <<>>
    /\ held = <<>>
    /\ flags = CleanFlags

SessionStep(op, session_id, key, v, db_ok) ==
    /\ task = "session" /\ st.calls < MaxSessionCalls
    /\ st' = SessionCall(st, op, session_id, key, v, db_ok)
    /\ msg' = IF session_id # "s" THEN [msg EXCEPT !.others = TRUE]
              ELSE IF db_ok THEN [msg EXCEPT !.values = Shadow(@, op, key, v)]
              ELSE msg
    /\ UNCHANGED <<stream, wire, cfg, task, last, consumed, held, flags>>

SessionSet == \E key \in SessionKeys, v \in SessionValues, db_ok \in BOOLEAN :
                  SessionStep("set", "s", key, v, db_ok)
SessionGet == \E key \in SessionKeys, db_ok \in BOOLEAN :
                  SessionStep("get", "s", key, "", db_ok)
SessionRemove == \E key \in SessionKeys, db_ok \in BOOLEAN :
                     SessionStep("remove", "s", key, "", db_ok)
SessionDestroy == \E db_ok \in BOOLEAN : SessionStep("destroy", "s", "", "", db_ok)
SessionOther == \E op \in {"set", "remove", "destroy"} :
                    SessionStep(op, "t", "name", "ktm", TRUE)

NextSession == SessionSet \/ SessionGet \/ SessionRemove \/ SessionDestroy \/ SessionOther

SpecSession == InitSession /\ [][NextSession]_vars

----
\* core/websocket/frame.rs. Bytes of frames are numbers 0..255.

\* u8 bit operations
Bit(byte, k) == (byte \div (2 ^ k)) % 2
BitXor(a, b) ==
    LET x(k) == ((Bit(a, k) + Bit(b, k)) % 2) * (2 ^ k)
    IN x(0) + x(1) + x(2) + x(3) + x(4) + x(5) + x(6) + x(7)
BitOr(a, b) ==
    LET x(k) == Max(Bit(a, k), Bit(b, k)) * (2 ^ k)
    IN x(0) + x(1) + x(2) + x(3) + x(4) + x(5) + x(6) + x(7)

Frame(fin, op_code, payload) == [fin |-> fin, op_code |-> op_code, payload |-> payload]

\* reader::fin_bit_to_u8, opcode_bit_to_u8, bit_mask_to_u8, payload_length_to_u8
fin_bit_to_u8(byte) == byte \div 128
opcode_bit_to_u8(byte) == byte % 16
bit_mask_to_u8(byte) == byte \div 128
payload_length_to_u8(byte) == byte % 128

\* the two length bytes read least significant byte first
payload_length_le_u16(bytes) == bytes[2] * 256 + bytes[1]

\* reader::payload_length_to_u16: u16::from_be_bytes
payload_length_to_u16(bytes) == bytes[1] * 256 + bytes[2]

\* reader::payload_length_to_u64: u64::from_be_bytes (the lengths on the wire of
\* this model have their four high bytes zero)
RECURSIVE payload_length_to_u64(_)
payload_length_to_u64(bytes) ==
    IF bytes = <<>> THEN 0
    ELSE payload_length_to_u64(DropLast(bytes, 1)) * 256 + bytes[Len(bytes)]

\* (n as u16).to_be_bytes(), (n as u64).to_be_bytes() for n below 2^31
u16_to_be_bytes(n) == <<(n \div 256) % 256, n % 256>>
u64_to_be_bytes(n) ==
    <<0, 0, 0, 0, (n \div (256 * 256 * 256)) % 256, (n \div (256 * 256)) % 256,
      (n \div 256) % 256, n % 256>>

\* payload[i] ^ mask_bytes[i % 4], indices from 0 in the code
ApplyMask(bytes, key) ==
    [i \in 1..Len(bytes) |-> BitXor(bytes[i], key[((i - 1) % 4) + 1])]

\* builder::build_opt; mask_bytes is what thread_rng().gen() returned
build_opt(frame, mask, mask_bytes) ==
    LET first_byte == BitOr((frame.fin * 128) % 256, frame.op_code)
        actual_payload_length == Len(frame.payload)
        length_bytes ==
            IF actual_payload_length < 126
            THEN <<IF mask THEN BitOr(actual_payload_length, 128)
                   ELSE actual_payload_length>>
            ELSE IF actual_payload_length < 65536
            THEN <<126>> \o u16_to_be_bytes(actual_payload_length)
            ELSE <<127>> \o u64_to_be_bytes(actual_payload_length)
    IN IF mask
       THEN <<first_byte>> \o length_bytes \o mask_bytes \o ApplyMask(frame.payload, mask_bytes)
       ELSE <<first_byte>> \o length_bytes \o frame.payload

\* builder::build
build(frame) == build_opt(frame, FALSE, <<0, 0, 0, 0>>)

\* reader::read_frame. Its locals; pc names the read_chunk it waits for.
NoFrame == Frame(0, 0, <<>>)
FrameLocals ==
    [pc |-> "head", buffer |-> <<>>, fin |-> 0, op_code |-> 0, mask_bit |-> 0,
     payload_length |-> 0, actual_payload_length |-> 0, masking_key |-> None,
     payload_reads |-> 0, result |-> Err("none"), frame |-> NoFrame]

FrameFail(l, e) == [l EXCEPT !.pc = "done", !.result = Err(e)]

\* lines 118-142: the payload loop, unmasking, the give-back and the result
read_frame_payload(s, l) ==
    IF Len(l.buffer) < l.actual_payload_length
    THEN [stream |-> s, st |-> [l EXCEPT !.pc = "payload"]]
    ELSE LET buffer == IF l.masking_key.some
                       THEN ApplyMask(l.buffer, l.masking_key.bytes) ELSE l.buffer
             extra_read == Drop(buffer, l.actual_payload_length)
             payload == Take(buffer, l.actual_payload_length)
         IN [stream |-> IF Len(buffer) > l.actual_payload_length
                        THEN restore_payload(s, extra_read) ELSE s,
             st |-> [l EXCEPT !.pc = "done", !.buffer = payload, !.result = Ok(<<>>),
                              !.frame = Frame(l.fin, l.op_code, payload)]]

\* lines 112-116 and on
read_frame_check(s, l, max_payload_size) ==
    IF l.actual_payload_length > max_payload_size
    THEN [stream |-> s, st |-> FrameFail(l, "PayloadTooLarge")]
    ELSE read_frame_payload(s, l)

\* lines 91-110 and on: the masking key; extended says that the one read_chunk this
\* step makes for a short buffer has been made. buffer[..4] of a shorter buffer
\* panics.
read_frame_key(s, l, max_payload_size, extended) ==
    IF l.mask_bit = 1
    THEN IF Len(l.buffer) < 4
         THEN IF extended THEN [stream |-> s, st |-> FrameFail(l, "panic")]
              ELSE [stream |-> s, st |-> [l EXCEPT !.pc = "key"]]
         ELSE read_frame_check(s, [l EXCEPT !.masking_key = Some(Take(l.buffer, 4)),
                                            !.buffer = Drop(l.buffer, 4)],
                               max_payload_size)
    ELSE read_frame_check(s, l, max_payload_size)

\* lines 62-89 and on: the payload length
read_frame_length(s, l, max_payload_size) ==
    IF l.payload_length < 126
    THEN read_frame_key(s, [l EXCEPT !.actual_payload_length = l.payload_length],
                        max_payload_size, FALSE)
    ELSE IF l.payload_length = 126
    THEN IF Len(l.buffer) < 2 THEN [stream |-> s, st |-> [l EXCEPT !.pc = "length"]]
         ELSE read_frame_key(s,
                  [l EXCEPT !.actual_payload_length = payload_length_to_u16(Take(l.buffer, 2)),
                            !.buffer = Drop(l.buffer, 2)],
                  max_payload_size, FALSE)
    ELSE IF Len(l.buffer) < 8 THEN [stream |-> s, st |-> [l EXCEPT !.pc = "length"]]
         ELSE read_frame_key(s,
                  [l EXCEPT !.actual_payload_length = payload_length_to_u64(Take(l.buffer, 8)),
                            !.buffer = Drop(l.buffer, 8)],
                  max_payload_size, FALSE)

\* lines 43-60 and on: the first two bytes
read_frame_head(s, l, max_payload_size) ==
    IF Len(l.buffer) < 2 THEN [stream |-> s, st |-> [l EXCEPT !.pc = "head"]]
    ELSE read_frame_length(s,
             [l EXCEPT !.fin = fin_bit_to_u8(l.buffer[1]),
                       !.op_code = opcode_bit_to_u8(l.buffer[1]),
                       !.mask_bit = bit_mask_to_u8(l.buffer[2]),
                       !.payload_length = payload_length_to_u8(l.buffer[2]),
                       !.buffer = Drop(l.buffer, 2)],
             max_payload_size)

\* One read_chunk of read_frame and everything up to the next one (or the return).
read_frame_turn(s, l, max_payload_size, n) ==
    LET r == read_chunk(s, n)
        got == [l EXCEPT !.buffer = @ \o r.res.bytes,
                         !.payload_reads = IF l.pc = "payload" THEN @ + 1 ELSE @]
    IN IF ~r.res.ok THEN [stream |-> r.stream, st |-> FrameFail(l, "Others")]
       ELSE IF l.pc = "head" THEN read_frame_head(r.stream, got, max_payload_size)
       ELSE IF l.pc = "length" THEN read_frame_length(r.stream, got, max_payload_size)
       ELSE IF l.pc = "key" THEN read_frame_key(r.stream, got, max_payload_size, TRUE)
       ELSE read_frame_payload(r.stream, got)

----
\* Specification SpecFrame: read_frame called on a stream that carries one or two
\* frames written by build_opt; the caller calls again after each frame returned.

MaxChunkF == 3

\* a payload of n bytes
PayloadOf(n) == [i \in 1..n |-> (i * 7) % 251]

OpCodes == {0, 1, 2, 8, 9, 10, 15}
MaskKeys == {<<1, 2, 3, 4>>, <<255, 16, 0, 129>>}
NoMaskKey == <<0, 0, 0, 0>>

\* how a frame is written: masked with key, or unmasked
Written(frame, mask, key) == [frame |-> frame, mask |-> mask, key |-> key]
Writings(frames, keys) ==
    {Written(f, FALSE, NoMaskKey) : f \in frames}
        \cup {Written(f, TRUE, k) : f \in frames, k \in keys}

RECURSIVE WireOf(_)
WireOf(written) ==
    IF written = <<>> THEN <<>>
    ELSE build_opt(Head(written).frame, Head(written).mask, Head(written).key)
             \o WireOf(Tail(written))

SmallFrames == {Frame(fin, op, PayloadOf(n)) : fin \in {0, 1}, op \in OpCodes, n \in {0, 1}}
                   \cup {Frame(1, 1, PayloadOf(5))}
MediumFrames == {Frame(fin, 2, PayloadOf(n)) : fin \in {0, 1}, n \in {125, 126, 127}}
                    \cup {Frame(0, 15, PayloadOf(126))}
LargeFrames == {Frame(1, 2, PayloadOf(n)) : n \in {65535, 65536}}
                   \cup {Frame(0, 15, PayloadOf(65536))}
SecondFrames == {Frame(1, 9, <<80, 73>>), Frame(0, 2, <<>>)}

FrameCases ==
    {[size |-> "small", written |-> <<w>>] : w \in Writings(SmallFrames, MaskKeys)}
      \cup {[size |-> "medium", written |-> <<w>>] :
               w \in Writings(MediumFrames, {<<255, 16, 0, 129>>})}
      \cup {[size |-> "large", written |-> <<w>>] :
               w \in Writings(LargeFrames, {<<255, 16, 0, 129>>})}
      \cup {[size |-> "small", written |-> <<w1, w2>>] :
               w1 \in Writings({Frame(1, 1, PayloadOf(n)) : n \in {0, 1, 5}}, MaskKeys),
               w2 \in Writings(SecondFrames, {<<1, 2, 3, 4>>})}

\* the streams a case is read from
FrameStreams(size, data) ==
    IF size = "small"
    THEN {NewStream(k, data, bs) : k \in Kinds, bs \in (1..MaxChunkF) \cup {Len(data)}}
    ELSE IF size = "medium"
    THEN {NewStream("tcp", data, bs) : bs \in {1, 4}}
             \cup {NewStream("test", data, bs) : bs \in {64, Len(data)}}
    ELSE {NewStream("test", data, bs) : bs \in {40000, Len(data)}}

FirstLen == Len(msg.written[1].frame.payload)

InitFrame ==
    /\ \E c \in FrameCases : msg = c @@ [kind |-> "frames"]
    /\ wire = WireOf(msg.written)
    /\ stream \in FrameStreams(msg.size, wire)
    /\ \E m \in {FirstLen - 1, FirstLen, FirstLen + 1} \cap Nat :
         cfg = [kind |-> "websocket",
                max_payload_size |->
                    IF Len(msg.written) = 1 THEN m
                    ELSE Max(FirstLen, Len(msg.written[2].frame.payload))]
    /\ task = "frame"
    /\ st = FrameLocals @@ [returned |-> <<>>]
    /\ last = NoCall
    /\ consumed = <<>>
    /\ held = <<>>
    /\ flags = CleanFlags

\* one read_chunk of the read_frame call in progress
FrameTurn ==
    /\ task = "frame" /\ st.pc # "done"
    /\ \E n \in ReadSizes(stream) :
         LET t == read_frame_turn(stream, st, cfg.max_payload_size, n)
         IN /\ stream' = t.stream
            /\ st' = t.st
    /\ UNCHANGED <<wire, msg, cfg, task, last, consumed, held, flags>>

\* read_frame has returned a frame; the caller keeps it and calls read_frame again
FrameAgain ==
    /\ task = "frame" /\ st.pc = "done" /\ st.result.ok
    /\ Len(st.returned) + 1 < Len(msg.written)
    /\ st' = FrameLocals @@ [returned |-> Append(st.returned, st.frame)]
    /\ UNCHANGED <<stream, wire, msg, cfg, task, last, consumed, held, flags>>

NextFrame == FrameTurn \/ FrameAgain

SpecFrame == InitFrame /\ [][NextFrame]_vars

----
\* core/websocket/mod.rs: WebSocket. Texts are sequences of code points.

DEFAULT_MAX_PAYLOAD_SIZE == 5 * 1024 * 1024

\* "No close message specified."
NoCloseMessage ==
    <<78, 111, 32, 99, 108, 111, 115, 101, 32, 109, 101, 115, 115, 97, 103, 101, 32,
      115, 112, 101, 99, 105, 102, 105, 101, 100, 46>>

\* String::from_utf8_lossy on bytes that are ASCII or, from 128 up, bytes that are
\* no part of any UTF-8 sequence here: each of those becomes U+FFFD
Utf8Lossy(bytes) == [i \in 1..Len(bytes) |-> IF bytes[i] < 128 THEN bytes[i] ELSE 65533]

\* WebSocket::close_code_from_payload
close_code_from_payload(response) ==
    IF Len(response) = 2 THEN response[1] * 256 + response[2] ELSE 0

\* WebSocket::close_message_from_payload
close_message_from_payload(response) ==
    IF Len(response) < 3 THEN NoCloseMessage ELSE Utf8Lossy(Drop(response, 2))

\* Option<Message>: what a call returned, to which handle, and why a Close was made
\* ("frame": a close frame was received, "error": read_frame failed, "limit")
Message(type, code, data, cause) ==
    [type |-> type, code |-> code, data |-> data, cause |-> cause]
NoMessage == Message("None", 0, <<>>, "none")

\* ping_with_interval, lines 204-208: the frame of the periodic ping
ping_frame == Frame(1, 9, <<>>)

\* send_pong, lines 235-239: the frame of the reply to a ping
pong_frame == Frame(1, 10, <<>>)

\* one write_chunk call on the connection: the receive call that made it (0 for
\* the ping task), its bytes and whether it returned Ok
WriteCall(call, bytes, ok) == [call |-> call, bytes |-> bytes, ok |-> ok]

\* receive_next after a close frame that is not acted on
close_ignored(receive_next) == receive_next

\* line 289: self.receive_next.store(false) on a close frame
close_received(receive_next) == FALSE

\* WebSocket::validate has succeeded and the handshake is written: receive_next is
\* true and no call is in progress
WsLocals ==
    [pc |-> "idle", receive_next |-> TRUE, response |-> <<>>, handle |-> 0,
     outcomes |-> <<>>, ping |-> "off", written |-> <<>>] @@ FrameLocals

WsReturn(l, message) ==
    [l EXCEPT !.pc = "idle",
              !.outcomes = Append(@, [handle |-> l.handle, message |-> message])]

\* the fields of read_frame's locals as a new call of read_frame finds them
WsReadFrame(l) ==
    [k \in DOMAIN l |-> IF k \in DOMAIN FrameLocals THEN FrameLocals[k] ELSE l[k]]

\* receive_message_with_limit, lines 253-257: the call of a handle begins
receive_message_enter(l, handle) ==
    IF ~l.receive_next
    THEN WsReturn([l EXCEPT !.handle = handle], NoMessage)
    ELSE [WsReadFrame(l) EXCEPT !.handle = handle, !.response = <<>>]

\* a ping task that goes on after a failed write
ping_retried(l, ok) ==
    [l EXCEPT !.written = Append(@, WriteCall(0, build(ping_frame), ok)),
              !.receive_next = IF ok THEN @ ELSE FALSE]

\* ping_with_interval, lines 214-227: one tick of the spawned task; ok says whether
\* write_chunk could write
ping_tick(l, ok) ==
    [l EXCEPT !.written = Append(@, WriteCall(0, build(ping_frame), ok)),
              !.receive_next = IF ok THEN @ ELSE FALSE,
              !.ping = IF ok THEN @ ELSE "stopped"]

\* a handler that answers a ping with nothing
pong_omitted(l, ok) == l

\* WebSocket::send_pong, called by the receive call in progress
send_pong(l, ok) ==
    [l EXCEPT !.written =
                  Append(@, WriteCall(Len(l.outcomes) + 1, build(pong_frame), ok)),
              !.receive_next = IF ok THEN @ ELSE FALSE]

\* receive_message_with_limit, lines 260-303: read_frame has returned (l.pc is
\* "done"); pong_sent says whether send_pong could write. response_limit is the
\* ceiling of line 272, DEFAULT_MAX_PAYLOAD_SIZE, or what stands for it on a
\* connection whose messages are to exceed it.
receive_message_frame(l, pong_sent, response_limit) ==
    LET frame == l.frame
        response == l.response \o frame.payload
    IN IF l.result.err = "panic" THEN [l EXCEPT !.pc = "aborted"]
       ELSE IF ~l.result.ok
       THEN WsReturn([l EXCEPT !.receive_next = FALSE],
                     Message("Close", 1000, <<l.result.err>>, "error"))
       ELSE IF Len(response) > response_limit
       THEN WsReturn([l EXCEPT !.response = response], Message("Close", 0, <<>>, "limit"))
       ELSE IF frame.fin # 1
       THEN [WsReadFrame(l) EXCEPT !.response = response]
       ELSE IF frame.op_code = 0
       THEN WsReturn([l EXCEPT !.response = response],
                     Message("Continue", 0, frame.payload, "none"))
       ELSE IF frame.op_code = 1
       THEN WsReturn([l EXCEPT !.response = response],
                     Message("Text", 0, Utf8Lossy(frame.payload), "none"))
       ELSE IF frame.op_code = 2
       THEN WsReturn([l EXCEPT !.response = response],
                     Message("Binary", 0, frame.payload, "none"))
       ELSE IF frame.op_code = 8
       THEN WsReturn([l EXCEPT !.response = response,
                               !.receive_next = close_received(@)],
                     Message("Close", close_code_from_payload(frame.payload),
                             close_message_from_payload(frame.payload), "frame"))
       ELSE IF frame.op_code = 9
       THEN WsReturn(send_pong([l EXCEPT !.response = response], pong_sent),
                     Message("Ping", 0, <<>>, "none"))
       ELSE IF frame.op_code = 10
       THEN WsReturn([l EXCEPT !.response = response], Message("Pong", 0, <<>>, "none"))
       ELSE WsReturn([l EXCEPT !.response = response],
                     Message("Others", 0, frame.payload, "none"))

\* one read_chunk made by the call in progress, and what the call does with the
\* frame when read_frame returns
receive_message_turn(s, l, max_payload_size, n, pong_sent, response_limit) ==
    LET t == read_frame_turn(s, l, max_payload_size, n)
    IN IF t.st.pc = "done"
       THEN [stream |-> t.stream,
             st |-> receive_message_frame(t.st, pong_sent, response_limit)]
       ELSE t

----
\* Specification SpecWs: handles (clones) of one WebSocket call
\* receive_message_with_limit one after the other on a connection on which the
\* client has written frames, while the periodic ping task, when there is one,
\* writes its pings; a write_chunk on a socket may fail at any time.

MaxCalls == 3
MaxPings == 2

Handles == {1, 2}

TextFrame == Frame(1, 1, <<72>>)
FragmentFrame == Frame(0, 1, <<72>>)
PingFrame == Frame(1, 9, <<>>)
ClosePayloads == {<<>>, <<3>>, <<3, 232>>, <<3, 233, 79, 75>>, <<3, 232, 255>>}
CloseFrames == {Frame(1, 8, p) : p \in ClosePayloads}

WsScripts ==
    LET plain(f) == Written(f, FALSE, NoMaskKey)
        masked(f) == Written(f, TRUE, <<1, 2, 3, 4>>)
    IN {<<plain(c)>> : c \in CloseFrames}
         \cup {<<masked(c)>> : c \in CloseFrames}
         \cup {<<plain(c), plain(TextFrame)>> : c \in CloseFrames}
         \cup {<<plain(f), plain(c)>> :
                  f \in {TextFrame, FragmentFrame, PingFrame},
                  c \in {Frame(1, 8, <<3, 232>>), Frame(1, 8, <<3, 233, 79, 75>>)}}
         \cup {<<plain(Frame(0, 8, <<3, 232>>)), plain(TextFrame)>>,
               <<plain(TextFrame), plain(PingFrame)>>,
               <<plain(PingFrame), plain(PingFrame)>>,
               <<masked(PingFrame), plain(TextFrame)>>,
               <<plain(FragmentFrame), plain(Frame(1, 9, <<72>>))>>,
               <<plain(Frame(0, 9, <<>>)), plain(Frame(1, 0, <<72>>))>>,
               <<plain(Frame(1, 10, <<>>)), plain(Frame(1, 11, <<>>))>>}

InitWs ==
    /\ \E w \in WsScripts : msg = [kind |-> "websocket", written |-> w]
    /\ wire = WireOf(msg.written)
    /\ \E k \in Kinds, bs \in {1, 2, Len(wire)} : stream = NewStream(k, wire, bs)
    /\ \E m \in {2, DEFAULT_MAX_PAYLOAD_SIZE} :
         cfg = [kind |-> "websocket", max_payload_size |-> m,
                response_limit |-> DEFAULT_MAX_PAYLOAD_SIZE]
    /\ task = "websocket"
    /\ \E periodic_ping \in BOOLEAN :
         st = [WsLocals EXCEPT !.ping = IF periodic_ping THEN "running" ELSE "off"]
    /\ last = NoCall
    /\ consumed = <<>>
    /\ held = <<>>
    /\ flags = [closed |-> FALSE, calls |-> 0, stream |-> stream]

\* a handle calls receive_message_with_limit
WsReceive ==
    /\ task = "websocket" /\ st.pc = "idle"
    /\ Len(st.outcomes) < MaxCalls
    /\ \E h \in Handles : st' = receive_message_enter(st, h)
    /\ UNCHANGED <<stream, wire, msg, cfg, task, last, consumed, held, flags>>

\* one read_chunk of the call in progress; flags remembers the stream as the
\* first Close made for a close frame left it
WsTurn ==
    /\ task = "websocket" /\ st.pc \notin {"idle", "aborted"}
    /\ \E n \in ReadSizes(stream),
          pong_sent \in IF stream.kind = "test" THEN {TRUE} ELSE BOOLEAN :
         LET t == receive_message_turn(stream, st, cfg.max_payload_size, n, pong_sent,
                                       cfg.response_limit)
             closing == /\ ~flags.closed /\ t.st.pc = "idle"
                        /\ t.st.outcomes[Len(t.st.outcomes)].message.cause = "frame"
         IN /\ stream' = t.stream
            /\ st' = t.st
            /\ flags' = IF closing
                        THEN [closed |-> TRUE, calls |-> Len(t.st.outcomes),
                              stream |-> t.stream]
                        ELSE flags
    /\ UNCHANGED <<wire, msg, cfg, task, last, consumed, held>>

\* the interval of the ping task has elapsed: it writes a ping
WsPing ==
    /\ task = "websocket" /\ st.ping = "running"
    /\ Cardinality({i \in 1..Len(st.written) : st.written[i].call = 0}) < MaxPings
    /\ \E ok \in IF stream.kind = "test" THEN {TRUE} ELSE BOOLEAN :
         st' = ping_tick(st, ok)
    /\ UNCHANGED <<stream, wire, msg, cfg, task, last, consumed, held, flags>>

NextWs == WsReceive \/ WsTurn \/ WsPing

SpecWs == InitWs /\ [][NextWs]_vars

----
\* Specification SpecWsLimit: the same calls on a connection on which the client
\* writes fragmented messages longer than the ceiling of the accumulated message.
\* A message of more than 5 MiB is out of reach of the exploration, so here the
\* ceiling is ScaledLimit bytes and the fragments carry one byte each.

ScaledLimit == 2

Fragment(op_code, byte) == Written(Frame(0, op_code, <<byte>>), FALSE, NoMaskKey)

WsLimitScripts ==
    LET plain(f) == Written(f, FALSE, NoMaskKey)
        long == <<Fragment(1, 72), Fragment(0, 73), Fragment(0, 74)>>
    IN {long \o <<plain(TextFrame)>>,
        long \o <<plain(Frame(1, 0, <<75>>)), plain(TextFrame)>>,
        long \o <<plain(Frame(1, 8, <<3, 232>>))>>,
        <<Fragment(1, 72), plain(Frame(1, 0, <<73>>)), plain(TextFrame)>>,
        <<plain(Frame(1, 1, <<72, 73, 74>>)), plain(TextFrame)>>,
        <<plain(Frame(1, 8, <<3, 232>>)), plain(TextFrame)>>}

InitWsLimit ==
    /\ \E w \in WsLimitScripts : msg = [kind |-> "websocket", written |-> w]
    /\ wire = WireOf(msg.written)
    /\ \E k \in Kinds, bs \in {2, Len(wire)} : stream = NewStream(k, wire, bs)
    /\ \E m \in {2, DEFAULT_MAX_PAYLOAD_SIZE} :
         cfg = [kind |-> "websocket", max_payload_size |-> m,
                response_limit |-> ScaledLimit]
    /\ task = "websocket"
    /\ \E periodic_ping \in BOOLEAN :
         st = [WsLocals EXCEPT !.ping = IF periodic_ping THEN "running" ELSE "off"]
    /\ last = NoCall
    /\ consumed = <<>>
    /\ held = <<>>
    /\ flags = [closed |-> FALSE, calls |-> 0, stream |-> stream]

SpecWsLimit == InitWsLimit /\ [][NextWs]_vars

----
\* core/stream/mod.rs: write_chunk of the socket wrappers. The writer half sits
\* behind its own tokio Mutex, which write_chunk holds until write_all has returned;
\* write_all hands the bytes to the socket in as many poll_write steps as the
\* socket takes.

\* the writer half: who holds its lock (0: nobody), what the socket has taken so
\* far (each byte with the call it came from), and how far every call has got
WriterLocals(calls) ==
    [writer |-> 0, out |-> <<>>,
     call |-> [c \in DOMAIN calls |-> [pc |-> "idle", sent |-> 0, ok |-> FALSE]]]

\* a write_chunk that does not wait for the lock
writer_lock_ignored(l) == TRUE

\* line 157: writer_ref.lock().await returns once nobody holds the lock
writer_lock(l) == l.writer = 0

\* write_chunk, lines 153-157: call c has the lock
write_chunk_enter(l, c) == [l EXCEPT !.writer = c, !.call[c].pc = "writing"]

\* write_chunk, lines 158-159: one poll_write of write_all. The socket takes n of
\* the bytes left, or fails; the guard is dropped when the call returns.
write_all_poll(l, c, bytes, n, ok) ==
    LET sent == l.call[c].sent + n
        taken == [i \in 1..n |-> [call |-> c, byte |-> bytes[l.call[c].sent + i]]]
    IN IF ~ok
       THEN [l EXCEPT !.writer = 0, !.call[c].pc = "done"]
       ELSE IF sent < Len(bytes)
       THEN [l EXCEPT !.out = @ \o taken, !.call[c].sent = sent]
       ELSE [l EXCEPT !.out = @ \o taken, !.writer = 0,
                      !.call[c] = [pc |-> "done", sent |-> sent, ok |-> TRUE]]

----
\* Specification SpecWrite: the tasks of one WebSocket connection (periodic ping,
\* pong reply of the handler, send_text and send_bytes of the application) call
\* write_chunk on the same socket while another task reads from it.

MaxWriteCalls == 3

WriteCalls ==
    <<[by |-> "ping", bytes |-> build(ping_frame)],
      [by |-> "send_text", bytes |-> build(Frame(1, 1, <<72>>))],
      [by |-> "send_pong", bytes |-> build(pong_frame)],
      [by |-> "ping", bytes |-> build(ping_frame)],
      [by |-> "send_bytes", bytes |-> build(Frame(1, 2, <<0, 255>>))]>>

InitWrite ==
    /\ \E k \in 2..Min(MaxWriteCalls, Len(WriteCalls)) :
         msg = [kind |-> "writers", calls |-> Take(WriteCalls, k)]
    /\ wire \in {<<>>, <<129, 0>>, <<137, 0, 136, 0>>}
    /\ \E bs \in {1, 4} : stream = NewStream("tcp", wire, bs)
    /\ cfg = [kind |-> "none"]
    /\ task = "writers"
    /\ st = WriterLocals(msg.calls)
    /\ last = NoCall
    /\ consumed = <<>>
    /\ held = <<>>
    /\ flags = CleanFlags

\* a task calls write_chunk and gets the lock; the calls of one task come one
\* after the other
WriteEnter ==
    /\ task = "writers"
    /\ \E c \in DOMAIN msg.calls :
         /\ st.call[c].pc = "idle"
         /\ \A b \in 1..(c - 1) :
               msg.calls[b].by = msg.calls[c].by => st.call[b].pc = "done"
         /\ writer_lock(st)
         /\ st' = write_chunk_enter(st, c)
    /\ UNCHANGED <<stream, wire, msg, cfg, task, last, consumed, held, flags>>

\* the socket takes some of the bytes of a call that is writing, or fails
WritePoll ==
    /\ task = "writers"
    /\ \E c \in DOMAIN msg.calls :
         /\ st.call[c].pc = "writing"
         /\ \E n \in 1..(Len(msg.calls[c].bytes) - st.call[c].sent), ok \in BOOLEAN :
               st' = write_all_poll(st, c, msg.calls[c].bytes, n, ok)
    /\ UNCHANGED <<stream, wire, msg, cfg, task, last, consumed, held, flags>>

\* the receiving task calls read_chunk
WriteRead ==
    /\ task = "writers"
    /\ \E n \in ReadSizes(stream) :
         LET r == read_chunk(stream, n)
         IN /\ stream' = r.stream
            /\ last' = ReadCall(stream, r)
            /\ consumed' = consumed \o r.res.bytes
    /\ UNCHANGED <<wire, msg, cfg, task, st, held, flags>>

NextWrite == WriteEnter \/ WritePoll \/ WriteRead

SpecWrite == InitWrite /\ [][NextWrite]_vars

----
\* core/stream/mod.rs, lines 90-161: the guards of TcpStreamWrapper. The pushback
\* slot, the read half and the write half sit behind three tokio Mutexes.
\* read_chunk locks restored_payload first and keeps that guard in scope until the
\* async block ends, so it still holds it while reader.read() is pending.

\* who holds each Mutex ("": nobody), where the read_chunk call of the receiving
\* task is, and the call of the other task with what it returned
GuardLocals ==
    [restored_payload |-> "", reader |-> "", writer |-> "",
     read |-> "idle",
     other |-> [op |-> "none", pc |-> "idle", bytes |-> <<>>, len |-> 0],
     waited |-> FALSE, calls |-> 0, out |-> <<>>]

\* read_chunk, lines 122-131: the slot is locked and empty, the read half is locked
\* and reader.read() is pending; both guards stay in scope
read_chunk_pending(l) ==
    [l EXCEPT !.restored_payload = "read", !.reader = "read", !.read = "pending"]

\* read_chunk, lines 118-120 and 133-147: the call returns and its guards are dropped
read_chunk_returned(l) ==
    [l EXCEPT !.restored_payload = "", !.reader = "", !.read = "idle"]

\* the Mutex an operation locks first: restore_payload (line 95) and restored_len
\* (line 104) lock restored_payload, write_chunk (line 157) locks the writer
guard_of(op) == IF op = "write_chunk" THEN "writer" ELSE "restored_payload"

\* lock().await of the other task returns once nobody holds the Mutex
guard_free(l, op) ==
    IF guard_of(op) = "writer" THEN l.writer = "" ELSE l.restored_payload = ""

----
\* Specification SpecGuard: one task reads from a socket while another task calls
\* write_chunk, restored_len or restore_payload on the same stream.

MaxGuardCalls == 3

GuardOps == {"write_chunk", "restored_len", "restore_payload"}

InitGuard ==
    /\ wire \in {<<"a">>, <<"a", "b">>, <<"a", "b", "c">>}
    /\ \E bs \in {1, 2} : stream = NewStream("tcp", wire, bs)
    /\ msg = [kind |-> "guards"]
    /\ cfg = [kind |-> "none"]
    /\ task = "guards"
    /\ st = GuardLocals
    /\ last = NoCall
    /\ consumed = <<>>
    /\ held = <<>>
    /\ flags = CleanFlags

\* the receiving task calls read_chunk: it gets the bytes of the slot at once, or
\* waits for the socket
GuardRead ==
    /\ task = "guards" /\ st.read = "idle" /\ st.restored_payload = ""
    /\ Len(stream.transport) > 0 \/ stream.restored_payload.some
    /\ IF stream.restored_payload.some
       THEN LET r == read_chunk(stream, 0)
            IN /\ stream' = r.stream
               /\ last' = ReadCall(stream, r)
               /\ consumed' = consumed \o r.res.bytes
               /\ st' = read_chunk_returned(st)
       ELSE /\ st' = read_chunk_pending(st)
            /\ UNCHANGED <<stream, last, consumed>>
    /\ UNCHANGED <<wire, msg, cfg, task, held, flags>>

\* data arrives on the socket: the pending reader.read() returns
GuardArrive ==
    /\ task = "guards" /\ st.read = "pending"
    /\ \E n \in ReadSizes(stream) :
         LET r == read_chunk(stream, n)
         IN /\ stream' = r.stream
            /\ last' = ReadCall(stream, r)
            /\ consumed' = consumed \o r.res.bytes
    /\ st' = read_chunk_returned(st)
    /\ UNCHANGED <<wire, msg, cfg, task, held, flags>>

\* the other task calls an operation of the stream and reaches its lock().await
GuardCall ==
    /\ task = "guards" /\ st.other.pc = "idle" /\ st.calls < MaxGuardCalls
    /\ \E op \in GuardOps, b \in {<<"p">>, <<"p", "q">>} :
         st' = [st EXCEPT !.other = [op |-> op, pc |-> "locking",
                                      bytes |-> IF op = "restored_len" THEN <<>> ELSE b,
                                      len |-> 0],
                          !.waited = FALSE, !.calls = @ + 1]
    /\ UNCHANGED <<stream, wire, msg, cfg, task, last, consumed, held, flags>>

\* the other task is polled while its Mutex is held: it stays at lock().await
GuardWait ==
    /\ task = "guards" /\ st.other.pc = "locking" /\ ~guard_free(st, st.other.op)
    /\ ~st.waited
    /\ st' = [st EXCEPT !.waited = TRUE]
    /\ UNCHANGED <<stream, wire, msg, cfg, task, last, consumed, held, flags>>

\* the other task gets its Mutex, runs the operation and drops the guard
GuardRun ==
    /\ task = "guards" /\ st.other.pc = "locking" /\ guard_free(st, st.other.op)
    /\ stream' = IF st.other.op = "restore_payload"
                 THEN restore_payload(stream, st.other.bytes) ELSE stream
    /\ st' = [st EXCEPT !.other.pc = "idle",
                        !.other.len = IF st.other.op = "restored_len"
                                      THEN restored_len(stream) ELSE 0,
                        !.out = IF st.other.op = "write_chunk"
                                THEN @ \o st.other.bytes ELSE @]
    /\ UNCHANGED <<wire, msg, cfg, task, last, consumed, held, flags>>

NextGuard == GuardRead \/ GuardArrive \/ GuardCall \/ GuardWait \/ GuardRun

SpecGuard == InitGuard /\ [][NextGuard]_vars

----
\* Specification SpecEndless: one decoder call at a time on a stream whose reads keep
\* returning data, or that ends after what the client wrote. The client has sent
\* msg.prefix and, when msg.endless, goes on sending the byte msg.filler for as
\* long as anybody reads, so a decoder that waits for a terminator never sees one.

MaxReads == 1100

\* the stream with the bytes the client has sent by the time of the next read
Refill(s, endless, filler) ==
    IF endless /\ Len(s.transport) < s.buffer_size
    THEN [s EXCEPT !.transport = @ \o [i \in 1..(s.buffer_size - Len(@)) |-> filler]]
    ELSE s

\* the call a turn of MultipartParser::parse belongs to: next_form_header scans
\* the first delimiter itself
PhaseOf(pc) == IF pc \in {"boundary", "header"} THEN "header" ELSE pc

\* the read_chunk calls of the decoder call in progress, after one more
Counted(f, phase) ==
    IF f.phase = phase THEN [f EXCEPT !.reads = @ + 1] ELSE [phase |-> phase, reads |-> 1]

EndlessHeaderCases ==
    {[decoder |-> "header", prefix |-> pre, filler |-> fill,
      cfg |-> [kind |-> "request", max_request_header_size |-> m,
               max_header_count |-> MaxHeaderCount],
      locals |-> HeaderLocals] :
        pre \in {<<>>, <<"G", "E", "T", SP>>, RequestLine}, fill \in {"x", CR}, m \in {1, 3}}

EndlessMultipartCases ==
    {[decoder |-> "multipart", prefix |-> pre, filler |-> fill,
      cfg |-> [max_header_size |-> h, max_file_size |-> 3, max_value_size |-> 3,
               custom_max_sizes |-> cm, kind |-> "form", boundary |-> Boundary],
      locals |-> MultipartLocals] :
        pre \in {<<>>, ScanBoundary(Boundary), PartBytes(TextPart(<<"a">>, <<>>)),
                 PartBytes(FilePart(<<"f">>, <<"t">>, <<>>)),
                 PartBytes(TextPart(<<"a">>, <<"x">>)) \o PartBytes(TextPart(<<"a">>, <<>>))},
        fill \in {"x", "-"}, h \in {1, 200}, cm \in {<<>>, [n \in {<<"a">>} |-> 1]}}

EndlessUrlCases ==
    {[decoder |-> "urlencoded", prefix |-> pre, filler |-> "x",
      cfg |-> [kind |-> "form", max_body_size |-> m],
      headers |-> [k \in {ContentLengthName} |-> <<ToDecimal(n)>>],
      locals |-> UrlLocals] :
        pre \in {<<>>, <<"a", "=", "1">>}, m \in {1, 4}, n \in {0, 2, 4, 5}}

EndlessFrameCases ==
    {[decoder |-> "frame", prefix |-> pf[1], filler |-> pf[2],
      cfg |-> [kind |-> "websocket", max_payload_size |-> m],
      locals |-> FrameLocals] :
        pf \in {<<(<<>>), 0>>, <<(<<>>), 3>>, <<(<<129>>), 72>>, <<(<<129, 3>>), 72>>,
                <<(<<129, 126>>), 0>>, <<(<<129, 126, 0>>), 4>>, <<(<<129, 127>>), 0>>,
                <<(<<129, 127, 0, 0, 0, 0, 0, 0, 0>>), 3>>, <<(<<129, 131>>), 72>>},
        m \in {2, 4}}

InitEndless ==
    /\ \E c \in EndlessHeaderCases \cup EndlessMultipartCases \cup EndlessUrlCases
                 \cup EndlessFrameCases, endless \in BOOLEAN :
         /\ msg = [kind |-> "endless", decoder |-> c.decoder, prefix |-> c.prefix,
                   filler |-> c.filler, endless |-> endless,
                   headers |-> IF c.decoder = "urlencoded" THEN c.headers ELSE EmptyHeaders]
         /\ cfg = c.cfg
         /\ st = c.locals
    /\ wire = msg.prefix
    /\ \E k \in Kinds, bs \in {1, 2} :
         stream = Refill(NewStream(k, wire, bs), msg.endless, msg.filler)
    /\ task = "endless"
    /\ last = NoCall
    /\ consumed = <<>>
    /\ held = <<>>
    /\ flags = [phase |-> "none", reads |-> 0]

\* one read_chunk of read_request_headers
EndlessHeader ==
    /\ task = "endless" /\ msg.decoder = "header" /\ st.pc = "loop"
    /\ flags.reads < MaxReads
    /\ \E n \in ReadSizes(stream) :
         LET t == read_request_headers_turn(stream, st, cfg, n)
         IN /\ stream' = Refill(t.stream, msg.endless, msg.filler)
            /\ st' = t.st
    /\ flags' = Counted(flags, "read_request_headers")
    /\ UNCHANGED <<wire, msg, cfg, task, last, consumed, held>>

\* one read_chunk of next_form_header, parse_value or parse_file
EndlessMultipart ==
    /\ task = "endless" /\ msg.decoder = "multipart" /\ st.pc # "done"
    /\ flags.reads < MaxReads
    /\ \E n \in ReadSizes(stream) :
         LET t == multipart_turn(stream, st, cfg, n)
         IN /\ stream' = Refill(t.stream, msg.endless, msg.filler)
            /\ st' = t.st
    /\ flags' = Counted(flags, PhaseOf(st.pc))
    /\ UNCHANGED <<wire, msg, cfg, task, last, consumed, held>>

\* UrlEncodedParser::parse up to its first read_chunk
EndlessUrlParse ==
    /\ task = "endless" /\ msg.decoder = "urlencoded" /\ st.pc = "from"
    /\ \E order \in Orders(msg.headers) :
         st' = urlencoded_parse_enter(stream, st, cfg, msg.headers, order)
    /\ UNCHANGED <<stream, wire, msg, cfg, task, last, consumed, held, flags>>

\* one read_chunk of read_query_params_from_stream
EndlessUrl ==
    /\ task = "endless" /\ msg.decoder = "urlencoded" /\ st.pc = "read"
    /\ flags.reads < MaxReads
    /\ \E n \in ReadSizes(stream) :
         LET t == read_query_params_turn(stream, st, n)
         IN /\ stream' = Refill(t.stream, msg.endless, msg.filler)
            /\ st' = t.st
    /\ flags' = Counted(flags, "read_query_params_from_stream")
    /\ UNCHANGED <<wire, msg, cfg, task, last, consumed, held>>

\* one read_chunk of read_frame
EndlessFrame ==
    /\ task = "endless" /\ msg.decoder = "frame" /\ st.pc # "done"
    /\ flags.reads < MaxReads
    /\ \E n \in ReadSizes(stream) :
         LET t == read_frame_turn(stream, st, cfg.max_payload_size, n)
         IN /\ stream' = Refill(t.stream, msg.endless, msg.filler)
            /\ st' = t.st
    /\ flags' = Counted(flags, "read_frame")
    /\ UNCHANGED <<wire, msg, cfg, task, last, consumed, held>>

NextEndless ==
    EndlessHeader \/ EndlessMultipart \/ EndlessUrlParse \/ EndlessUrl \/ EndlessFrame

SpecEndless == InitEndless /\ [][NextEndless]_vars

----
\* Claims about the byte stream (specification Spec)

Pushback == stream.restored_payload.bytes

\* C1 (as stated): when every restore_payload gives back a suffix of the bytes most
\* recently returned by read_chunk, the bytes kept by the callers, followed by the
\* pushback slot and the unread transport bytes, are the transmitted byte sequence.
C1_Conservation ==
    flags.foreign = 0 => consumed \o Pushback \o stream.transport = wire

\* C1 (amended): the same, provided also that no restore_payload is called while the
\* slot still holds bytes that were not read back (one restore per read_chunk).
C1_ConservationDrained ==
    (flags.foreign = 0 /\ ~flags.overwrote) =>
        consumed \o Pushback \o stream.transport = wire

\* a second consumer has read back what the first one over-read, with bytes still
\* to come from the transport
C1_Witness ==
    /\ flags = CleanFlags
    /\ last.op = "read_chunk" /\ last.phys = 0
    /\ last.slot.some /\ Len(last.slot.bytes) > 0
    /\ Len(consumed) > Len(last.slot.bytes)
    /\ Len(stream.transport) > 0

\* C2 (as stated): after restore_payload(b), for every b, the next read_chunk returns
\* exactly b without a transport read and leaves the slot empty; with nothing in the
\* slot read_chunk performs exactly one physical read of at most buffer_size bytes.
C2_ReadChunkContract ==
    /\ last.op = "restore_payload" => stream.restored_payload = Some(last.arg)
    /\ (last.op = "read_chunk" /\ last.slot.some) =>
          /\ last.res = Ok(last.slot.bytes)
          /\ last.phys = 0
          /\ stream.restored_payload = None
    /\ (last.op = "read_chunk" /\ ~last.slot.some) =>
          /\ last.phys = 1
          /\ last.asked <= stream.buffer_size
          /\ Len(last.res.bytes) <= stream.buffer_size

\* C2 (amended): for every non-empty b the next read_chunk returns exactly b without
\* a transport read and leaves the slot empty; with nothing in the slot read_chunk
\* performs exactly one physical read of at most buffer_size bytes, except that the
\* in-memory test double fails without reading once it was shut down.
C2_ReadChunkContractNonEmpty ==
    /\ last.op = "restore_payload" => stream.restored_payload = Some(last.arg)
    /\ (last.op = "read_chunk" /\ last.slot.some /\ Len(last.slot.bytes) > 0) =>
          /\ last.res = Ok(last.slot.bytes)
          /\ last.phys = 0
          /\ stream.restored_payload = None
          /\ restored_len(stream) = 0
    /\ (last.op = "read_chunk" /\ ~last.slot.some) =>
          /\ last.phys = (IF stream.kind = "test" /\ stream.is_shutdown THEN 0 ELSE 1)
          /\ last.asked <= stream.buffer_size
          /\ Len(last.res.bytes) <= stream.buffer_size
          /\ stream.restored_payload = None

\* a read_chunk has just handed back bytes that did not come from the last chunk
C2_Witness ==
    /\ last.op = "read_chunk"
    /\ flags.foreign > 0
    /\ last.slot.some /\ Len(last.slot.bytes) > 0
    /\ last.res.bytes = last.slot.bytes

----
\* Claims about the header reader (specification SpecHeader)

HeaderFinished == task = "header" /\ st.pc = "done"
HeaderCeiling == max_request_header_size(cfg, stream.buffer_size)

\* what read_request_headers returns when the same bytes arrive in one chunk
OneChunkHeader ==
    read_request_headers_turn(NewStream(stream.kind, wire, stream.buffer_size),
                              HeaderLocals, cfg, Len(wire))

\* C3: read_chunk never returns a successful result carrying zero bytes.
C3_NoEmptySuccess ==
    (last.op = "read_chunk" /\ last.res.ok) => Len(last.res.bytes) > 0

C7_PushbackIsOverRead ==
    /\ (HeaderFinished /\ st.result.ok) =>
          /\ stream.restored_payload.some
          /\ st.buffer = msg.head \o Pushback
          /\ Pushback \o stream.transport = msg.body
    /\ (task = "body" /\ st.pc = "second") =>
          /\ IsPrefix(last.res.bytes, msg.body)
          /\ last.res.bytes \o stream.transport = msg.body
          /\ last.slot.bytes # <<>> => last.res.bytes = last.slot.bytes

\* the body consumer's first read_chunk returned over-read body bytes from the slot
C7_Witness ==
    /\ task = "body" /\ st.pc = "second"
    /\ last.phys = 0 /\ Len(last.res.bytes) > 0
    /\ Len(stream.transport) > 0

\* C8: a header block of exactly ceiling bytes is accepted and one of ceiling + 1
\* bytes fails with HeaderSizeExceed, for every chunking and whether or not body
\* bytes arrive in the chunk that holds the terminator.
C8_ExactCeiling ==
    (HeaderFinished /\ msg.valid) =>
        /\ Len(msg.head) = HeaderCeiling => st.result.ok
        /\ Len(msg.head) = HeaderCeiling + 1 => st.result.err = "HeaderSizeExceed"

----
\* Claims about the multipart decoder (specification SpecMultipart)

MultipartFinished == task = "multipart" /\ st.pc = "done"

\* no configured ceiling is within reach of the payload
Unlimited ==
    /\ cfg.max_header_size >= Len(wire)
    /\ cfg.max_value_size >= Len(wire)
    /\ cfg.max_file_size >= Len(wire)
    /\ cfg.custom_max_sizes = <<>>

\* MultipartParser::parse on the same payload delivered in one chunk
OneChunkMultipart ==
    multipart_run(NewStream("test", wire, Len(wire)), MultipartLocals, cfg)

\* C4: for every valid payload and every split of its bytes into chunks, parse yields
\* the same field map and file map as when the payload is delivered in one chunk.
C4_SameAsOneChunk ==
    (MultipartFinished /\ Unlimited) =>
        /\ st.result.ok = OneChunkMultipart.result.ok
        /\ st.form_data = OneChunkMultipart.form_data
        /\ st.files = OneChunkMultipart.files

\* C5: for a well-formed body parse returns Ok with every text value under its field
\* name, in arrival order, and every file under its field name with its filename and
\* exactly the payload bytes of its part.
C5_ParseResult ==
    (MultipartFinished /\ Unlimited) =>
        /\ st.result.ok
        /\ st.form_data = msg.fields
        /\ st.files = msg.files
\* C9: a text part named f whose value has exactly ceiling bytes is decoded, and one
\* whose value has ceiling + 1 bytes fails with MaxValueSizeExceed(f), the ceiling
\* being the one configured for f, or the default value ceiling.
C9_ExactValueCeiling ==
    (/\ MultipartFinished
     /\ Len(msg.parts) = 1 /\ ~msg.parts[1].filename.some
     /\ cfg.max_header_size >= Len(wire)) =>
        LET f == msg.parts[1].name
            payload == msg.parts[1].payload
            ceiling == max_size_for_field(cfg, f, stream.buffer_size)
        IN /\ Len(payload) = ceiling =>
                 st.result.ok /\ st.form_data = msg.fields
           /\ Len(payload) = ceiling + 1 =>
                 st.result = FieldError("MaxValueSizeExceed", f)

----
\* Claims about the URL-encoded body decoder (specification SpecUrl)

\* the values value("Content-Length") can return for the request
ContentLengthValues ==
    {value(msg.headers, ContentLengthName, o) : o \in Orders(msg.headers)}
ContentLengthMissing == ContentLengthValues = {None}
ContentLengthUnparsable ==
    /\ ~ContentLengthMissing
    /\ \A v \in ContentLengthValues : ~parse_usize(v.bytes).ok
UrlUntouched ==
    /\ stream = NewStream(stream.kind, wire, stream.buffer_size)
    /\ last = NoCall
    /\ st.buffer = <<>>

\* C10: when the request has no Content-Length header, or its value does not parse
\* as a non-negative integer, the decoder returns an error (never a success with an
\* empty body) and has read no byte from the stream.
C10_NoLengthNoRead ==
    (task = "urlencoded" /\ st.pc # "from"
       /\ (ContentLengthMissing \/ ContentLengthUnparsable)) =>
        /\ st.pc = "done"
        /\ st.result = FieldError("Others", <<>>)
        /\ UrlUntouched
C10_Witness ==
    /\ task = "urlencoded" /\ st.pc = "done"
    /\ ContentLengthUnparsable
    /\ Len(wire) > 0
    /\ st.result = FieldError("Others", <<>>)
    /\ UrlUntouched

\* the ceiling of the declared length: max(max_body_size, buffer_size)
BodyCeiling == Max(cfg.max_body_size, stream.buffer_size)

\* C11: a declared Content-Length above max(max_body_size, buffer_size) is rejected
\* with MaxBodySizeExceed before any read_chunk, the stream and its pushback slot
\* unchanged; a declared length equal to the ceiling is not rejected.
C11_CeilingUpfront ==
    (task = "urlencoded" /\ st.pc # "from") =>
        /\ st.content_length > BodyCeiling =>
              /\ st.pc = "done"
              /\ st.result = FieldError("MaxBodySizeExceed", <<>>)
              /\ UrlUntouched
        /\ st.content_length <= BodyCeiling => st.result.err # "MaxBodySizeExceed"
C11_Witness ==
    /\ task = "urlencoded" /\ st.pc = "done"
    /\ st.content_length = BodyCeiling + 1
    /\ stream.buffer_size > cfg.max_body_size
    /\ Len(wire) > 0
    /\ st.result = FieldError("MaxBodySizeExceed", <<>>)
    /\ UrlUntouched

\* the field map the pairs of the request stand for
RECURSIVE ParamsOf(_, _)
ParamsOf(pairs, acc) ==
    IF pairs = <<>> THEN acc
    ELSE ParamsOf(Tail(pairs), Push(acc, Head(pairs).name, Head(pairs).value))
UrlFinished == task = "urlencoded" /\ st.pc = "done"
\* whatever order the header map is read in, the declared length is the body's
DeclaredExact ==
    \A v \in ContentLengthValues :
        v.some /\ parse_usize(v.bytes) = [ok |-> TRUE, n |-> Len(msg.body)]

\* C12: the decoder consumes exactly Content-Length bytes: the field map comes from
\* the first Content-Length bytes only, and what a read returned beyond them is
\* given back, so that the next reader sees it.
C12_ExactConsumption ==
    (UrlFinished /\ st.result.ok) =>
        /\ st.params = parse_url_encoded(Take(st.buffer, st.content_length)).params
        /\ Pushback \o stream.transport = Drop(wire, st.content_length)

\* C13: a body of key=value pairs joined by "&", with Content-Length its length,
\* decodes to the map from every key to its values in the order of the pairs,
\* duplicates kept.
C13_OrderedValues ==
    (UrlFinished /\ msg.form = "plain" /\ DeclaredExact
       /\ Len(msg.body) <= BodyCeiling) =>
        /\ st.result.ok
        /\ st.params = ParamsOf(msg.pairs, <<>>)

\* C14: key and value of every pair are percent-decoded and the value is stored
\* under the decoded key; escapes, decodable or malformed, never make the decode
\* fail or abort, the raw text standing in where decoding fails.
C14_DecodedNeverFails ==
    (UrlFinished /\ msg.form = "escaped" /\ DeclaredExact /\ msg.next = <<>>
       /\ Len(msg.body) <= BodyCeiling) =>
        /\ st.result.ok
        /\ st.params = ParamsOf(msg.pairs, <<>>)

----
\* Claims about WebSocket frames (specification SpecFrame)

FrameReturned == task = "frame" /\ st.pc = "done"
OneFrame == Len(msg.written) = 1
RoundTripLengths == {0, 1, 125, 126, 127, 65535, 65536}

\* C15: for a frame with a payload of 0, 1, 125, 126, 127, 65535 or 65536 bytes and
\* any FIN bit and opcode, read_frame on the bytes of build(frame), with
\* max_payload_size at least the payload length, returns the same FIN, opcode and
\* payload.
C15_UnmaskedRoundTrip ==
    (FrameReturned /\ OneFrame /\ ~msg.written[1].mask
       /\ FirstLen \in RoundTripLengths /\ cfg.max_payload_size >= FirstLen) =>
        /\ st.result.ok
        /\ st.frame = msg.written[1].frame
C15_Witness ==
    /\ FrameReturned /\ OneFrame /\ ~msg.written[1].mask
    /\ FirstLen = 65536 /\ msg.written[1].frame.fin = 0
    /\ cfg.max_payload_size = FirstLen
    /\ st.result.ok
    /\ st.frame = msg.written[1].frame

\* C16: for every frame, payload length (below 126, 126..65535, above 65535) and
\* masking key, read_frame on the bytes of build_opt(frame, mask = true) returns the
\* original FIN, opcode and unmasked payload.
C16_MaskedRoundTrip ==
    (FrameReturned /\ OneFrame /\ msg.written[1].mask
       /\ cfg.max_payload_size >= FirstLen) =>
        /\ st.result.ok
        /\ st.frame = msg.written[1].frame

\* C17: two frames written back-to-back are returned by two consecutive read_frame
\* calls, the first and then the second, with their FIN, opcode and payload, also
\* when one read returns bytes of both; restored_len() is 0 after the second call.
C17_BackToBack ==
    (FrameReturned /\ Len(msg.written) = 2) =>
        /\ st.result.ok
        /\ st.frame = msg.written[Len(st.returned) + 1].frame
        /\ Len(st.returned) = 1 =>
              /\ st.returned[1] = msg.written[1].frame
              /\ restored_len(stream) = 0

\* C18: read_frame returns an error whenever the resolved payload length exceeds
\* max_payload_size, before any read_chunk for payload bytes; a resolved length
\* equal to max_payload_size is accepted.
C18_RejectBeforePayload ==
    FrameReturned =>
        /\ st.actual_payload_length > cfg.max_payload_size =>
              /\ st.result = Err("PayloadTooLarge")
              /\ st.payload_reads = 0
        /\ st.actual_payload_length <= cfg.max_payload_size =>
              st.result.err # "PayloadTooLarge"

\* read_frame on the same bytes delivered in one chunk
OneChunkFrame ==
    read_frame_turn(NewStream("test", wire, Len(wire)), FrameLocals,
                    cfg.max_payload_size, Len(wire)).st

\* the bytes on the stream are a valid frame: build_opt writes the mask bit only in
\* the 7-bit length form
ValidFrameWritten == OneFrame /\ (msg.written[1].mask => FirstLen < 126)

\* C30: for every valid frame within the size limit, masked or not, and every
\* split of its bytes into chunks, read_frame returns a frame, the same as when the
\* bytes arrive in one chunk; it never fails and never slices past its buffer.
C30_SameFrameForEverySplit ==
    (FrameReturned /\ ValidFrameWritten /\ cfg.max_payload_size >= FirstLen) =>
        /\ st.result.ok
        /\ st.frame = OneChunkFrame.frame

----
\* Claims about WebSocket messages (specification SpecWs)

\* C19: once a call has returned Message::Close for a received close frame
\* (opcode 8, FIN 1), every later call on the WebSocket or a clone of it returns
\* None, and no further frame is read from the stream.
C19_NothingAfterClose ==
    (task = "websocket" /\ flags.closed) =>
        /\ st.pc = "idle"
        /\ stream = flags.stream
        /\ \A j \in (flags.calls + 1)..Len(st.outcomes) :
              st.outcomes[j].message.type = "None"
C19_Witness ==
    /\ task = "websocket" /\ flags.closed
    /\ Len(st.outcomes) = flags.calls + 2
    /\ st.outcomes[flags.calls + 1].handle # st.outcomes[flags.calls].handle
    /\ st.outcomes[flags.calls + 2].message.type = "None"
    /\ Len(stream.transport) > 0
    /\ stream = flags.stream

\* C39: whenever receive_message_with_limit has returned Message::Close, for a
\* close frame, a read_frame error or a message above the ceiling, every later
\* call returns None and no read_frame is in progress again.
C39_NothingAfterAnyClose ==
    task = "websocket" =>
        \A i \in 1..Len(st.outcomes) :
            st.outcomes[i].message.type = "Close" =>
                /\ st.pc = "idle"
                /\ \A j \in (i + 1)..Len(st.outcomes) :
                      st.outcomes[j].message.type = "None"

\* the close frame that the last Close message was made for
ClosePayloadSeen == msg.written[Len(msg.written)].frame.payload
CloseJustReturned ==
    /\ task = "websocket" /\ st.pc = "idle" /\ Len(st.outcomes) > 0
    /\ st.outcomes[Len(st.outcomes)].message.cause = "frame"
    /\ Len(msg.written) = 1 /\ ~msg.written[1].mask

\* C20: for a close frame with payload p of at least 2 bytes the close code is the
\* big-endian value of p[0..2], also when a reason follows, and the reason is the
\* text of p[2..], or "No close message specified." for exactly 2 bytes; for p
\* shorter than 2 bytes the close code is 0.
C20_CloseCodeAndReason ==
    CloseJustReturned =>
        LET p == ClosePayloadSeen
            m == st.outcomes[Len(st.outcomes)].message
        IN /\ Len(p) >= 2 => m.code = p[1] * 256 + p[2]
           /\ Len(p) > 2 => m.data = Utf8Lossy(Drop(p, 2))
           /\ Len(p) = 2 => m.data = NoCloseMessage
           /\ Len(p) < 2 => m.code = 0

\* the write_chunk calls made within the i-th receive call
PongsOf(i) == {j \in 1..Len(st.written) : st.written[j].call = i}
LastOutcome == st.outcomes[Len(st.outcomes)]

PingWrites(l) == Cardinality({j \in 1..Len(l.written) : l.written[j].call = 0})
WriteFailed == \E j \in 1..Len(st.written) : ~st.written[j].ok
PingWriteFailed == \E j \in 1..Len(st.written) : st.written[j] = WriteCall(0, <<137, 0>>, FALSE)
\* a step taken while no receive call is in progress starts no read_frame: a call
\* that begins returns None at once and the stream is left as it is
NoReceiveAttempt ==
    st.pc = "idle" =>
        /\ st'.pc = "idle"
        /\ stream' = stream
        /\ \A i \in (Len(st.outcomes) + 1)..Len(st'.outcomes) :
              st'.outcomes[i].message.type = "None"

\* C22 (as stated): once a write of the ping task or of a pong reply has failed,
\* every receive call that starts afterwards returns None without calling
\* read_frame, and the ping task writes no further ping.
C22_DeadAfterFailedWrite ==
    [][(task = "websocket" /\ WriteFailed) =>
           (NoReceiveAttempt /\ PingWrites(st') = PingWrites(st))]_vars

\* C22 (amended): once a write of the ping task or of a pong reply has failed,
\* every receive call that starts afterwards returns None without calling
\* read_frame; the ping task writes no further ping once one of its own writes has
\* failed.
C22_DeadAfterFailedWriteOwnPing ==
    [][(task = "websocket" /\ WriteFailed) =>
           /\ NoReceiveAttempt
           /\ PingWriteFailed => PingWrites(st') = PingWrites(st)]_vars
C22_Witness ==
    /\ task = "websocket" /\ st.pc = "idle"
    /\ PingWriteFailed /\ st.ping = "stopped"
    /\ Len(st.outcomes) = 2
    /\ st.outcomes[1].message.type = "Ping"
    /\ LastOutcome.message.type = "None"
    /\ Len(stream.transport) > 0

----
\* Claims about concurrent writers (specification SpecWrite)

\* the bytes the socket has taken from call c, in the order it took them
OutOf(c) ==
    LET mine == SelectSeq(st.out, LAMBDA e : e.call = c)
    IN [i \in 1..Len(mine) |-> mine[i].byte]

\* C23: when several tasks call write_chunk on one stream concurrently, the bytes
\* of each call are contiguous on the wire, in some order of the calls (all of them
\* for a call that returned Ok, the first of them for a call that failed), and
\* read_chunk calls in between change neither what is written nor what is read.
C23_WritesNotInterleaved ==
    task = "writers" =>
        /\ \A i, k \in 1..Len(st.out) :
              (i < k /\ st.out[i].call = st.out[k].call) =>
                  \A j \in i..k : st.out[j].call = st.out[i].call
        /\ \A c \in DOMAIN msg.calls :
              /\ OutOf(c) = Take(msg.calls[c].bytes, st.call[c].sent)
              /\ (st.call[c].pc = "done" /\ st.call[c].ok) =>
                    OutOf(c) = msg.calls[c].bytes
        /\ consumed \o stream.transport = wire
C23_Witness ==
    /\ task = "writers" /\ Len(msg.calls) = 3
    /\ st.call[1].pc = "writing" /\ st.call[1].sent = 1
    /\ st.call[2].pc = "idle"
    /\ st.call[3].pc = "done" /\ st.call[3].ok
    /\ Len(consumed) = 2 /\ Len(stream.transport) = 2

----
\* Claims about decoders on a stream that never ends (specification SpecEndless)

\* the larger of a configured ceiling and the buffer size of the stream
CeilingFor(configured) == Max(configured, stream.buffer_size)

\* the most read_chunk calls the ceiling of the decoder call in progress leaves
\* room for when no read returns more than one byte: one read per byte up to
\* the ceiling, the read that crosses it, and a first read that may return an
\* empty pushback. read_frame reads 2 bytes, up to 8 of length, once for the key
\* and then the payload; next_form_header reads the first delimiter before it
\* looks at its ceiling
ReadBound ==
    IF flags.phase = "read_request_headers"
    THEN CeilingFor(cfg.max_request_header_size) + 2
    ELSE IF flags.phase = "header"
    THEN Max(Len(ScanBoundary(cfg.boundary)), CeilingFor(cfg.max_header_size) + 1) + 1
    ELSE IF flags.phase = "value"
    THEN (IF st.form_part.name.bytes \in DOMAIN cfg.custom_max_sizes
          THEN CeilingFor(cfg.custom_max_sizes[st.form_part.name.bytes])
          ELSE cfg.max_value_size) + 2
    ELSE IF flags.phase = "file"
    THEN (IF st.form_part.name.bytes \in DOMAIN cfg.custom_max_sizes
          THEN CeilingFor(cfg.custom_max_sizes[st.form_part.name.bytes])
          ELSE cfg.max_file_size) + 2
    ELSE IF flags.phase = "read_query_params_from_stream"
    THEN CeilingFor(cfg.max_body_size) + 1
    ELSE IF flags.phase = "read_frame"
    THEN 2 + 8 + 1 + cfg.max_payload_size + 1
    ELSE 0

\* C37: on a stream whose reads keep returning data, or end in an error, every
\* decoder call (read_request_headers, the header, text and file phases of the
\* multipart decoder, the urlencoded decoder, read_frame) makes no more read_chunk
\* calls than its ceiling on the bytes read leaves room for, and has returned
\* once it has made that many.
C37_ReadsBounded ==
    task = "endless" =>
        /\ flags.reads <= ReadBound
        /\ (flags.reads > 0 /\ flags.reads = ReadBound) => st.pc = "done"
C37_Witness ==
    /\ task = "endless" /\ msg.endless /\ msg.decoder = "multipart"
    /\ flags.phase = "file" /\ st.pc = "done"
    /\ st.result = FieldError("MaxFileSizeExceed", <<"f">>)
    /\ flags.reads = cfg.max_file_size + 1
    /\ stream.kind = "tcp"

----
\* Claims about the guards of the stream (specification SpecGuard)

\* C38: while read_chunk is suspended awaiting data, no other operation on the
\* same stream (write_chunk, restored_len, restore_payload) is kept waiting by a
\* guard the pending read holds.
C38_PendingReadBlocksNothing ==
    (task = "guards" /\ st.read = "pending" /\ st.other.pc = "locking") =>
        guard_free(st, st.other.op)

----
\* Claims about the connection handler (specification SpecServer)

\* C24: the handler never starts read_request_headers for a next request while the
\* stream still holds body bytes of the previous one: whenever a request's body was
\* not fully consumed when the view returned, the connection is closed after the
\* response.
C24_NoDanglingBody ==
    task = "server" =>
        \A i \in 1..Len(st.events) :
            (st.events[i].op = "read_request_headers" /\ st.events[i].request > 1) =>
                st.events[i].left
                    <= Len(wire) - RequestEnd(msg.requests, st.events[i].request - 1)

\* C25: when read_request_headers fails with HeaderSizeExceed the handler writes a
\* 431 response, then shuts the stream down, and the connection is closed: the
\* failed call is the last read_request_headers on it.
C25_TooLargeThenShutdown ==
    (task = "server" /\ st.reader.result.err = "HeaderSizeExceed") =>
        LET n == Len(st.events)
        IN /\ st.pc = "closed"
           /\ stream.is_shutdown
           /\ n >= 3
           /\ st.events[n - 2].op = "read_request_headers"
           /\ st.events[n - 1].op = "write_chunk" /\ st.events[n - 1].status = 431
           /\ st.events[n].op = "shutdown"
C25_Witness ==
    /\ task = "server" /\ st.pc = "closed"
    /\ st.reader.result.err = "HeaderSizeExceed"
    /\ st.request = 2
    /\ stream.is_shutdown
    /\ st.events[Len(st.events) - 1].status = 431 /\ st.events[Len(st.events) - 1].ok

\* the latest request is a GET after whose header block read_request_headers
\* gave back bytes
GetOverRead == task = "server" /\ st.method = GetMethod /\ st.over_read > 0

\* C36: a GET request with restored_len() > 0 after read_request_headers has
\* keep-alive off: no read_request_headers follows it, and once its response has
\* been handed to write_chunk the handler shuts the stream down unless that
\* write failed, in which case it leaves the loop at once
C36_OverReadGetCloses ==
    GetOverRead =>
        /\ ~st.is_keep_alive
        /\ st.pc # "headers"
        /\ st.events[Len(st.events)].request = st.request
        /\ st.pc = "closed" =>
              LET e == st.events[Len(st.events)]
              IN \/ e.op = "shutdown" /\ stream.is_shutdown
                 \/ e.op = "write_chunk" /\ ~e.ok
\* the statement without the failed write: every closed connection of such a GET
\* has been shut down
C36_AlwaysShutDown ==
    (GetOverRead /\ st.pc = "closed") => stream.is_shutdown
C36_Witness ==
    /\ GetOverRead /\ st.pc = "closed" /\ st.request = 1
    /\ Len(msg.requests) = 2
    /\ st.over_read = 1 + Len(msg.requests[2].head)
    /\ stream.is_shutdown
    /\ st.events[Len(st.events) - 1].op = "write_chunk" /\ st.events[Len(st.events) - 1].ok

----
\* Claims about the calls of a MultipartParser

\* what the parser is due next before call i of returned: a header at first and
\* after a body that was not the last, the body after a header, nothing after
\* the body that reported the final part
RECURSIVE Due(_)
Due(i) ==
    IF i = 1 THEN "header"
    ELSE LET e == st.returned[i - 1]
         IN IF ~e.ok THEN Due(i - 1)
            ELSE IF e.op = "header" THEN "value"
            ELSE IF e.completed THEN "nothing" ELSE "header"

\* C26: calls that succeed alternate header, body, header, ... ; a call that is
\* not due while a part is open or expected returns Others without a read_chunk;
\* after the body that reported the final part no call returns a further part
C26_HeaderBodyAlternate ==
    task = "parts" =>
        \A i \in 1..Len(st.returned) :
            LET e == st.returned[i]
            IN /\ e.ok => e.op = Due(i)
               /\ (Due(i) # "nothing" /\ e.op # Due(i)) =>
                      ~e.ok /\ e.err = "Others" /\ e.reads = 0

----
\* Claims about the constraint accessors (specification SpecLimits)

\* the configured ceiling that applies to the call: the override of the field when
\* there is one, otherwise the ceiling of the kind
CeilingOf(c, accessor, field_name) ==
    CASE accessor = "max_body_size" -> c.max_body_size
      [] accessor = "max_header_size" -> c.max_header_size
      [] accessor = "max_value_size" -> c.max_value_size
      [] accessor = "max_size_for_field" ->
            IF field_name \in DOMAIN c.custom_max_sizes THEN c.custom_max_sizes[field_name]
            ELSE c.max_value_size
      [] accessor = "max_size_for_file" ->
            IF field_name \in DOMAIN c.custom_max_sizes THEN c.custom_max_sizes[field_name]
            ELSE c.max_file_size
      [] OTHER -> c.max_request_header_size

\* C27: every accessor returns the larger of the ceiling that applies and the
\* buffer size, for fields with and without an override
C27_AtLeastBufferSize ==
    (task = "limits" /\ st.accessor # "none") =>
        st.result = Max(CeilingOf(cfg, st.accessor, st.field_name), stream.buffer_size)

----
\* Claims about the Headers map (specification SpecHeaderMap)

\* the values stored under name before the call, none when the name was not stored
StoredBefore(name) == IF HasKey(st.before, name) THEN st.before[name] ELSE <<>>

\* C28: after set(name, v) every lookup of the name, in any casing and whatever the
\* iteration order of the map, returns v; set_multiple(name, v) puts v after the
\* values the name had; every call leaves the other stored names as they were and
\* stores the name in the casing it was given
C28_SetReplacesAnyCasing ==
    (task = "headermap" /\ st.op # "none") =>
        /\ HasKey(st.headers, st.name)
        /\ \A k \in DOMAIN st.before : HasKey(st.headers, k)
        /\ st.op = "set" =>
              \A n \in LookupNames, order \in Orders(st.headers) :
                  ToLowercase(n) = ToLowercase(st.name) =>
                      value(st.headers, n, order) = Some(st.value)
        /\ st.op = "set_multiple" =>
              st.headers[st.name] = Append(StoredBefore(st.name), st.value)

----
\* Claims about the session manager (specification SpecSession)

\* the rows of session s as a map from key to value
SessionView ==
    [k \in {row.key : row \in {r \in st.table : r.session_id = "s"}} |->
        session_get(st.table, "s", k).bytes]

\* C29: with calls on the one session s only, the table holds for s the value of
\* the last set of every key that no remove of the key and no destroy followed and
\* nothing else, and a get that reached the database returned that value, None
\* for a key without one
C29_SessionReadsLastWrite ==
    (task = "session" /\ ~msg.others) =>
        /\ SessionView = msg.values
        /\ (st.call.op = "get" /\ st.call.db_ok) =>
              st.call.result = IF st.call.key \in DOMAIN msg.values
                               THEN Some(msg.values[st.call.key]) ELSE None

\* C40: session values are isolated per session id: a set, remove or destroy of
\* another session leaves every key of session s with the value get returned for
\* it before the call.
C40_SessionsIsolated ==
    [][(task = "session" /\ st'.call.session_id = "t") => SessionView' = SessionView]_vars

\* a key was removed while the other key of the session kept its value, and was read
C29_Witness ==
    /\ task = "session" /\ ~msg.others
    /\ st.call.op = "get" /\ st.call.db_ok /\ st.call.key = "location"
    /\ st.call.result = Some("ktm")
    /\ DOMAIN msg.values = {"location"}
    /\ st.calls = 4

----
\* Claims about the bytes a MultipartParser leaves on the stream (SpecParts)

\* what the next consumer of the stream will read: the pushback slot, then the
\* bytes still on the transport
Remaining ==
    (IF stream.restored_payload.some THEN stream.restored_payload.bytes ELSE <<>>)
        \o stream.transport

\* the body phase has just returned Ok
BodyJustReturned ==
    /\ task = "parts" /\ st.call = "none" /\ st.returned # <<>>
    /\ st.returned[Len(st.returned)].op = "value"
    /\ st.returned[Len(st.returned)].ok

ClosingDelimiter == <<"-", "-">> \o Boundary \o FORM_PART_END
ClosingEnd == Find(wire, ClosingDelimiter) + Len(ClosingDelimiter)

\* C31: when a body phase returns and another part follows, the stream continues
\* right after the delimiter line of that part; when it reports the final part,
\* every byte of the connection after the closing delimiter is still to be read
C31_OverReadGivenBack ==
    BodyJustReturned =>
        /\ IsSuffix(Remaining, wire)
        /\ IF st.returned[Len(st.returned)].completed
           THEN Len(Remaining) >= Len(wire) - ClosingEnd
           ELSE IsSuffix(ScanBoundary(Boundary), Take(wire, Len(wire) - Len(Remaining)))

----
\* Claims about parse_file (specification SpecMultipart)

\* parse_file is about to issue a read_chunk
FileReadDue == task = "multipart" /\ st.pc = "file"

\* C32: whenever parse_file issues a read_chunk its scan buffer holds at most
\* len("\r\n--" + boundary) bytes, and the temporary file followed by the scan
\* buffer is the bytes read for the file so far, in order, none missing
C32_ScanBufferBounded ==
    FileReadDue =>
        /\ Len(st.buffer) <= Len(ValueTerminator(cfg.boundary))
        /\ IsSuffix(st.temp_file \o st.buffer \o Remaining, wire)
C32_Witness ==
    /\ FileReadDue
    /\ Len(st.temp_file) >= 2
    /\ Len(st.buffer) = Len(ValueTerminator(cfg.boundary))
    /\ st.bytes_read > Len(ValueTerminator(cfg.boundary)) + 1

----
\* Claims about the value of a text part (specification SpecValue)

\* C33: captured bytes that end with a line break give the value without that
\* line break; any other captured bytes, of any length, are the value unchanged
C33_TrailingBreakDropped ==
    (task = "value" /\ st.copied) =>
        st.value = IF IsSuffix(CRLF_BREAK, st.to_copy)
                   THEN DropLast(st.to_copy, Len(CRLF_BREAK))
                   ELSE st.to_copy

----
\* Claims about parts without a name (specification SpecNameless)

\* the values and file contents parse has collected
Collected ==
    UNION {{st.form_data[k][i] : i \in 1..Len(st.form_data[k])} : k \in DOMAIN st.form_data}
        \cup UNION {{st.files[k][i].content : i \in 1..Len(st.files[k])} : k \in DOMAIN st.files}

\* C34: parse ends with an error on a body with a part that has no name, and the
\* payload of that part is in neither map
C34_NamelessPartIsError ==
    msg.kind = "nameless" =>
        /\ <<"z">> \notin Collected
        /\ st.pc = "done" => ~st.result.ok
C34_Witness ==
    /\ msg.kind = "nameless" /\ st.pc = "done"
    /\ st.result = FieldError("Others", <<>>)
    /\ msg.headers = ContentTypeHeader
    /\ <<"x">> \in Collected

----
\* Claims about repeated header lines (specification SpecHeaderMap)

\* the values stored for a name under the keys of order, whatever their casing
RECURSIVE StoredFor(_, _, _)
StoredFor(h, name, order) ==
    IF order = <<>> THEN <<>>
    ELSE (IF ToLowercase(Head(order)) = ToLowercase(name) THEN h[Head(order)] ELSE <<>>)
             \o StoredFor(h, name, Tail(order))

\* C35: every header line added with set_multiple is kept, and multiple_values
\* returns every value stored for the name, those of one key in arrival order
C35_EveryLineReturned ==
    (task = "headermap" /\ st.op # "none") =>
        /\ st.op = "set_multiple" =>
              st.headers[st.name] = Append(StoredBefore(st.name), st.value)
        /\ \A n \in LookupNames, order \in Orders(st.headers) :
              multiple_values(st.headers, n, order) = StoredFor(st.headers, n, order)

====
